---- MODULE Spec2Model ----
(***************************************************************************)
(* Model of server.py (Pedro-5D/Triplicidades): the chart pipeline         *)
(*   obtener_zona_horaria -> convertir_a_utc -> calculate_positions_with_utc *)
(*   -> calculate_positions_aspects / calculate_dignity_table              *)
(*   -> is_dry_birth / calculate_houses_with_triplicities,                 *)
(* and the route /calculate that runs them and assembles the payload.      *)
(*                                                                         *)
(* Angles are fixed-point: one unit is 1/Res of a degree.  Each operation  *)
(* of the source is an operator with the source's name; each specification *)
(* draws the inputs of one group of operations in its Init and applies the *)
(* operations in its actions.                                              *)
(***************************************************************************)
EXTENDS Integers, Sequences, FiniteSets, TLC

VARIABLES
    pc,             \* position of the running call
    longitude,      \* argument of get_sign / get_house_number / calculate_angle
    asc_longitude,  \* second argument of get_house_number / calculate_angle
    sign,           \* value returned by get_sign
    house,          \* value returned by get_house_number
    angle,          \* value returned by calculate_angle
    aspect_type,    \* value returned by determine_aspect_type
    sign_position,  \* (degrees, minutes) returned by calculate_sign_degrees
    SWISSEPH_AVAILABLE, \* the module flag set at import
    asc_mc,         \* (asc, mc) returned by calculate_asc_mc
    asc_errors,     \* the except blocks of calculate_asc_mc that ran
    csv_file,       \* time_zone.csv: whether it opens, and its rows of field texts
    csv_reader,     \* the rows csv.reader has still to yield
    cache,          \* entries of the lru_cache of obtener_datos_ciudad, oldest first
    requests,       \* the /calculate requests served so far, in order
    city_data,      \* value obtener_datos_ciudad handed to the running request
    coordenadas,    \* city record: lat, lon (fixed-point degrees), pais (text)
    fecha,          \* the date 'YYYY-MM-DD', as its year, month and day
    hemisferio,     \* "norte" / "sur", argument of determinar_horario_verano
    time_zone_df,   \* the timezone table loaded at startup
    is_dst,         \* value returned by determinar_horario_verano
    timezone_info,  \* value returned by obtener_zona_horaria
    hora,           \* the local time 'HH:MM', as its hour and minute
    dt_utc,         \* outcome of convertir_a_utc
    utc_datetime,   \* argument of calculate_positions_with_utc (minute of an epoch)
    lat,            \* argument lat: None or a latitude
    lon,            \* argument lon: None or a longitude
    path,           \* "primary": calculate_positions_with_utc, "secondary": calculate_positions
    t,              \* instant handed to the ephemeris by the running path
    positions,      \* the list 'positions'
    returned,       \* list returned by calculate_positions_with_utc
    aspects,        \* list returned by calculate_positions_aspects
    compared,       \* the pairs calculate_angle was called on, in order
    dignity_table,  \* value returned by calculate_dignity_table
    birth_type,     \* "seco" / "húmedo", from is_dry_birth
    houses_table,   \* value returned by calculate_houses_with_triplicities
    response        \* the payload calculate hands to jsonify

ascVars == <<SWISSEPH_AVAILABLE, asc_mc, asc_errors>>

ioVars == <<csv_file, csv_reader, cache, requests, city_data>>

fnVars == <<longitude, asc_longitude, sign, house, angle, aspect_type, sign_position, ascVars, ioVars>>

tzVars == <<coordenadas, fecha, hemisferio, time_zone_df, is_dst, timezone_info>>

utcVars == <<hora, dt_utc>>

posVars == <<utc_datetime, lat, lon, path, t, positions, returned>>

chartVars == <<aspects, compared, dignity_table, birth_type, houses_table, response>>

vars == <<pc, fnVars, tzVars, utcVars, posVars, chartVars>>

Nil == "nil"

\* Units per degree of the fixed-point angles.
Res == 2

Deg(d) == d * Res

N360 == Deg(360)

Abs(x) == IF x < 0 THEN -x ELSE x

\* A group of variables that a specification does not use stays at Nil.
ascIdle == SWISSEPH_AVAILABLE = Nil /\ asc_mc = Nil /\ asc_errors = Nil

ioIdle == csv_file = Nil /\ csv_reader = Nil /\ cache = Nil /\ requests = Nil /\ city_data = Nil

fnIdle ==
    /\ longitude = Nil /\ asc_longitude = Nil /\ sign = Nil
    /\ house = Nil /\ angle = Nil /\ aspect_type = Nil
    /\ sign_position = Nil /\ ascIdle /\ ioIdle

tzIdle ==
    /\ coordenadas = Nil /\ fecha = Nil /\ hemisferio = Nil
    /\ time_zone_df = Nil /\ is_dst = Nil /\ timezone_info = Nil

utcIdle == hora = Nil /\ dt_utc = Nil

posIdle ==
    /\ utc_datetime = Nil /\ lat = Nil /\ lon = Nil /\ path = Nil
    /\ t = Nil /\ positions = Nil /\ returned = Nil

chartIdle ==
    /\ aspects = Nil /\ compared = Nil /\ dignity_table = Nil
    /\ birth_type = Nil /\ houses_table = Nil /\ response = Nil

----------------------------------------------------------------------------
(* get_sign: the sign table and its lookup loop.                           *)

signs_virgo_30 ==
    << [name |-> "ARIES",       start |-> Deg(354), length |-> Deg(36)],
       [name |-> "TAURO",       start |-> Deg(30),  length |-> Deg(30)],
       [name |-> "GÉMINIS",     start |-> Deg(60),  length |-> Deg(30)],
       [name |-> "CÁNCER",      start |-> Deg(90),  length |-> Deg(30)],
       [name |-> "LEO",         start |-> Deg(120), length |-> Deg(30)],
       [name |-> "VIRGO",       start |-> Deg(150), length |-> Deg(30)],
       [name |-> "LIBRA",       start |-> Deg(186), length |-> Deg(24)],
       [name |-> "ESCORPIO",    start |-> Deg(210), length |-> Deg(30)],
       [name |-> "OFIUCO",      start |-> Deg(240), length |-> Deg(12)],
       [name |-> "SAGITARIO",   start |-> Deg(252), length |-> Deg(18)],
       [name |-> "CAPRICORNIO", start |-> Deg(270), length |-> Deg(36)],
       [name |-> "ACUARIO",     start |-> Deg(306), length |-> Deg(18)],
       [name |-> "PEGASO",      start |-> Deg(324), length |-> Deg(6)],
       [name |-> "PISCIS",      start |-> Deg(330), length |-> Deg(24)] >>

signs ==
    << [name |-> "ARIES",       start |-> Deg(354), length |-> Deg(36)],
       [name |-> "TAURO",       start |-> Deg(30),  length |-> Deg(30)],
       [name |-> "GÉMINIS",     start |-> Deg(60),  length |-> Deg(30)],
       [name |-> "CÁNCER",      start |-> Deg(90),  length |-> Deg(30)],
       [name |-> "LEO",         start |-> Deg(120), length |-> Deg(30)],
       [name |-> "VIRGO",       start |-> Deg(150), length |-> Deg(36)],
       [name |-> "LIBRA",       start |-> Deg(186), length |-> Deg(24)],
       [name |-> "ESCORPIO",    start |-> Deg(210), length |-> Deg(30)],
       [name |-> "OFIUCO",      start |-> Deg(240), length |-> Deg(12)],
       [name |-> "SAGITARIO",   start |-> Deg(252), length |-> Deg(18)],
       [name |-> "CAPRICORNIO", start |-> Deg(270), length |-> Deg(36)],
       [name |-> "ACUARIO",     start |-> Deg(306), length |-> Deg(18)],
       [name |-> "PEGASO",      start |-> Deg(324), length |-> Deg(6)],
       [name |-> "PISCIS",      start |-> Deg(330), length |-> Deg(24)] >>

\* The if / elif of one iteration of the lookup loop (lines 618-623).
sign_match(L, s) ==
    LET end == (s.start + s.length) % N360
    IN  \/ (s.start <= L /\ L < end)
        \/ (s.start > Deg(330) /\ (L >= s.start \/ L < end))

\* Index of the first table entry the loop returns at, 0 when the loop ends
\* without returning.
RECURSIVE sign_loop(_, _)
sign_loop(L, i) ==
    IF i > Len(signs) THEN 0
    ELSE IF sign_match(L, signs[i]) THEN i
    ELSE sign_loop(L, i + 1)

get_sign(lng) ==
    LET L == lng % N360
        i == sign_loop(L, 1)
    IN  IF i = 0 THEN "ARIES" ELSE signs[i].name

\* sign_info: index of the first table entry with the name, 0 for None
sign_info(sign_name) ==
    IF \E k \in 1 .. Len(signs) : signs[k].name = sign_name
    THEN CHOOSE k \in 1 .. Len(signs) :
             signs[k].name = sign_name /\ \A j \in 1 .. (k - 1) : signs[j].name # sign_name
    ELSE 0

\* degrees_in_sign of lines 656-665 without the special case of line 656
degrees_in_sign_plain(L, start, length) ==
    LET d == L - start
    IN  IF d >= length THEN d % length ELSE d

\* degrees_in_sign of lines 656-665
degrees_in_sign(L, start, length) ==
    LET d0 == IF start > Deg(330) /\ L < start THEN L + (N360 - start) ELSE L - start
        d1 == IF d0 < 0 THEN d0 + N360 ELSE d0
    IN  IF d1 >= length THEN d1 % length ELSE d1

\* the table of lines 630-645 repeats the one of get_sign
calculate_sign_degrees(lng, sign_name) ==
    LET L == lng % N360
        i == sign_info(sign_name)
    IN  IF i = 0 THEN << 0, 0 >>
        ELSE LET d == degrees_in_sign(L, signs[i].start, signs[i].length)
             IN  << d \div Res, ((d % Res) * 60) \div Res >>

----------------------------------------------------------------------------
(* calculate_angle / determine_aspect_type (nested in                      *)
(* calculate_positions_aspects) and get_house_number.                      *)

calculate_angle(pos1, pos2) ==
    LET diff == Abs(pos1 - pos2) % N360
    IN  IF diff > Deg(180) THEN N360 - diff ELSE diff

orb == Deg(2)

HARMONIC_RELEVANT == {0, 60, 120, 180}

INHARMONIC_RELEVANT == {30, 90, 150}

HARMONIC == {12, 24, 36, 48, 72, 84, 96, 108, 132, 144, 156, 168}

INHARMONIC == {6, 18, 42, 54, 66, 78, 102, 114, 126, 138, 162, 174}

near(ang, targets) == \E a \in targets : Abs(ang - Deg(a)) <= orb

determine_aspect_type_strict(ang) ==
    IF \E a \in HARMONIC_RELEVANT : Abs(ang - Deg(a)) < orb THEN "Armónico Relevante"
    ELSE IF near(ang, INHARMONIC_RELEVANT) THEN "Inarmónico Relevante"
    ELSE IF near(ang, HARMONIC) THEN "Armónico"
    ELSE IF near(ang, INHARMONIC) THEN "Inarmónico"
    ELSE "None"

determine_aspect_type(ang) ==
    IF near(ang, HARMONIC_RELEVANT) THEN "Armónico Relevante"
    ELSE IF near(ang, INHARMONIC_RELEVANT) THEN "Inarmónico Relevante"
    ELSE IF near(ang, HARMONIC) THEN "Armónico"
    ELSE IF near(ang, INHARMONIC) THEN "Inarmónico"
    ELSE "None"

get_house_number_nowrap(lng, asc) ==
    1 + ((lng - asc) \div Deg(30))

get_house_number(lng, asc) ==
    LET diff == (lng - asc) % N360
        h    == 1 + (diff \div Deg(30))
    IN  IF h > 12 THEN h - 12 ELSE h

----------------------------------------------------------------------------
(* SpecSign: get_sign applied to every longitude of the grid, including    *)
(* longitudes outside [0, N360) that the function reduces itself.          *)

Longitudes == (0 - N360) .. (2 * N360 - 1)

InitSign ==
    /\ pc = "get_sign"
    /\ longitude \in Longitudes
    /\ asc_longitude = Nil /\ sign = Nil /\ house = Nil
    /\ angle = Nil /\ aspect_type = Nil
    /\ sign_position = Nil /\ ascIdle /\ ioIdle
    /\ tzIdle
    /\ utcIdle
    /\ posIdle
    /\ chartIdle

GetSign ==
    /\ pc = "get_sign"
    /\ sign' = get_sign(longitude)
    /\ pc' = "calculate_sign_degrees"
    /\ UNCHANGED <<longitude, asc_longitude, house, angle, aspect_type, sign_position, ascVars, ioVars>>
    /\ UNCHANGED tzVars
    /\ UNCHANGED utcVars
    /\ UNCHANGED posVars
    /\ UNCHANGED chartVars

\* degrees, minutes = calculate_sign_degrees(longitude, sign) (lines 406, 420)
CalculateSignDegrees ==
    /\ pc = "calculate_sign_degrees"
    /\ sign_position' = calculate_sign_degrees(longitude, sign)
    /\ pc' = "return_sign"
    /\ UNCHANGED <<longitude, asc_longitude, sign, house, angle, aspect_type, ascVars, ioVars>>
    /\ UNCHANGED tzVars
    /\ UNCHANGED utcVars
    /\ UNCHANGED posVars
    /\ UNCHANGED chartVars

NextSign == GetSign \/ CalculateSignDegrees

SpecSign == InitSign /\ [][NextSign]_vars

\* Table segments whose interval [start, start + length), taken modulo 360,
\* contains L.
SegmentsContaining(L) ==
    {i \in 1 .. Len(signs) : ((L - signs[i].start) % N360) < signs[i].length}

\* C1: for every longitude, reduced modulo 360, exactly one of the 14 table
\* segments contains it, get_sign returns the name of that segment, and the
\* lookup loop returns inside the table (the final default is not reached).
C1_SignPartition ==
    (pc = "return_sign") =>
        LET L == longitude % N360
        IN  /\ Cardinality(SegmentsContaining(L)) = 1
            /\ sign_loop(L, 1) \in SegmentsContaining(L)
            /\ \A i \in SegmentsContaining(L) : sign = signs[i].name
            /\ Len(signs) = 14

\* C1 witness: a longitude below 0 that reduces into the part of ARIES
\* before 0 degrees has been looked up.
C1_Witness ==
    /\ pc = "return_sign"
    /\ longitude = 0 - Deg(3)
    /\ sign = "ARIES"

\* The table entry of the sign that was returned.
SignEntry == signs[CHOOSE k \in 1 .. Len(signs) : signs[k].name = sign]

\* C17: for every longitude L and s = get_sign(L), calculate_sign_degrees(L, s)
\* returns a degree in 0 .. span - 1 and a minute in 0 .. 59 that together
\* are the offset (L - start of s) mod 360, on both sides of 0° for ARIES.
C17_DegreesInSign ==
    (pc = "return_sign") =>
        LET off == ((longitude % N360) - SignEntry.start) % N360
        IN  /\ sign_position[1] \in 0 .. ((SignEntry.length \div Res) - 1)
            /\ sign_position[2] \in 0 .. 59
            /\ (sign_position[1] * 60 + sign_position[2]) * Res = off * 60

\* C17 witness: a longitude between 10° and 11°, in ARIES past 0°, was placed
\* at 16° and some minutes of the sign.
C17_Witness ==
    /\ pc = "return_sign"
    /\ longitude = Deg(10) + 1
    /\ sign = "ARIES"
    /\ sign_position[1] = 16
    /\ sign_position[2] > 0


----------------------------------------------------------------------------
(* SpecPair: the two-longitude functions applied to every pair of the grid. *)

InitPair ==
    /\ pc = "get_house_number"
    /\ longitude \in 0 .. (N360 - 1)
    /\ asc_longitude \in 0 .. (N360 - 1)
    /\ sign = Nil /\ house = Nil /\ angle = Nil /\ aspect_type = Nil
    /\ sign_position = Nil /\ ascIdle /\ ioIdle
    /\ tzIdle
    /\ utcIdle
    /\ posIdle
    /\ chartIdle

GetHouseNumber ==
    /\ pc = "get_house_number"
    /\ house' = get_house_number(longitude, asc_longitude)
    /\ pc' = "calculate_angle"
    /\ UNCHANGED <<longitude, asc_longitude, sign, angle, aspect_type, sign_position, ascVars, ioVars>>
    /\ UNCHANGED tzVars
    /\ UNCHANGED utcVars
    /\ UNCHANGED posVars
    /\ UNCHANGED chartVars

DetermineAspect ==
    /\ pc = "calculate_angle"
    /\ angle' = calculate_angle(longitude, asc_longitude)
    /\ aspect_type' = determine_aspect_type(angle')
    /\ pc' = "return_pair"
    /\ UNCHANGED <<longitude, asc_longitude, sign, house, sign_position, ascVars, ioVars>>
    /\ UNCHANGED tzVars
    /\ UNCHANGED utcVars
    /\ UNCHANGED posVars
    /\ UNCHANGED chartVars

NextPair == GetHouseNumber \/ DetermineAspect

SpecPair == InitPair /\ [][NextPair]_vars

\* Within 2 degrees (inclusive) of one of the listed separations.
Within2(ang, targets) ==
    \E a \in targets : ang >= Deg(a) - Deg(2) /\ ang <= Deg(a) + Deg(2)

\* C7: for every separation in [0,180] the category returned is the one whose
\* target list has a separation within 2 degrees; no separation is within 2
\* degrees of targets of two categories.
C7_AspectCategories ==
    (pc = "return_pair") =>
        LET hr == Within2(angle, {0, 60, 120, 180})
            ir == Within2(angle, {30, 90, 150})
            ha == Within2(angle, {12, 24, 36, 48, 72, 84, 96, 108, 132, 144, 156, 168})
            ih == Within2(angle, {6, 18, 42, 54, 66, 78, 102, 114, 126, 138, 162, 174})
        IN  /\ angle >= 0 /\ angle <= Deg(180)
            /\ (aspect_type = "Armónico Relevante") <=> hr
            /\ (aspect_type = "Inarmónico Relevante") <=> ir
            /\ (aspect_type = "Armónico") <=> ha
            /\ (aspect_type = "Inarmónico") <=> ih
            /\ (aspect_type = "None") <=> ~(hr \/ ir \/ ha \/ ih)
            /\ ~(hr /\ ir) /\ ~(hr /\ ha) /\ ~(hr /\ ih)
            /\ ~(ir /\ ha) /\ ~(ir /\ ih) /\ ~(ha /\ ih)

\* C7 witness: a separation exactly 2 degrees from 60 has been classified.
C7_Witness ==
    /\ pc = "return_pair"
    /\ angle = Deg(62)
    /\ aspect_type = "Armónico Relevante"

----------------------------------------------------------------------------
(* Text.  A text is the sequence of its characters, so that str.lower()    *)
(* and the substring test 'x in text' are computed, not assumed.           *)

UPPER ==
    << "A", "B", "C", "D", "E", "F", "G", "H", "I", "J", "K", "L", "M",
       "N", "O", "P", "Q", "R", "S", "T", "U", "V", "W", "X", "Y", "Z",
       "Ñ", "É", "Á", "Í", "Ó", "Ú" >>

LOWER ==
    << "a", "b", "c", "d", "e", "f", "g", "h", "i", "j", "k", "l", "m",
       "n", "o", "p", "q", "r", "s", "t", "u", "v", "w", "x", "y", "z",
       "ñ", "é", "á", "í", "ó", "ú" >>

lower_char(c) ==
    IF \E i \in 1 .. Len(UPPER) : UPPER[i] = c
    THEN LOWER[CHOOSE i \in 1 .. Len(UPPER) : UPPER[i] = c]
    ELSE c

lower(text) == [i \in 1 .. Len(text) |-> lower_char(text[i])]

\* needle in text
Contains(needle, text) ==
    \E k \in 0 .. (Len(text) - Len(needle)) :
        \A j \in 1 .. Len(needle) : text[k + j] = needle[j]

s_spain == <<"s", "p", "a", "i", "n">>

s_espana == <<"e", "s", "p", "a", "ñ", "a">>

s_argentina == <<"a", "r", "g", "e", "n", "t", "i", "n", "a">>

s_mexico == <<"m", "e", "x", "i", "c", "o">>

s_mexico_acento == <<"m", "é", "x", "i", "c", "o">>

s_australia == <<"a", "u", "s", "t", "r", "a", "l", "i", "a">>

s_new_zealand == <<"n", "e", "w", " ", "z", "e", "a", "l", "a", "n", "d">>

s_nueva_zelanda == <<"n", "u", "e", "v", "a", " ", "z", "e", "l", "a", "n", "d", "a">>

s_chile == <<"c", "h", "i", "l", "e">>

s_paraguay == <<"p", "a", "r", "a", "g", "u", "a", "y">>

s_united_states == <<"u", "n", "i", "t", "e", "d", " ", "s", "t", "a", "t", "e", "s">>

s_estados_unidos == <<"e", "s", "t", "a", "d", "o", "s", " ", "u", "n", "i", "d", "o", "s">>

south_dst_countries ==
    {s_australia, s_new_zealand, s_nueva_zelanda, s_chile, s_paraguay}

\* Country texts as the geocoder returns them.
c_Spain == <<"S", "p", "a", "i", "n">>

c_Espana == <<"E", "s", "p", "a", "ñ", "a">>

c_ESPANA == <<"E", "S", "P", "A", "Ñ", "A">>

c_Argentina == <<"A", "r", "g", "e", "n", "t", "i", "n", "a">>

c_Mexico == <<"M", "e", "x", "i", "c", "o">>

c_MEXICO == <<"M", "É", "X", "I", "C", "O">>

c_United_States == <<"U", "n", "i", "t", "e", "d", " ", "S", "t", "a", "t", "e", "s">>

c_Australia == <<"A", "u", "s", "t", "r", "a", "l", "i", "a">>

c_New_Zealand == <<"N", "e", "w", " ", "Z", "e", "a", "l", "a", "n", "d">>

c_Nueva_Zelanda == <<"N", "u", "e", "v", "a", " ", "Z", "e", "l", "a", "n", "d", "a">>

c_Chile == <<"C", "h", "i", "l", "e">>

c_Paraguay == <<"P", "a", "r", "a", "g", "u", "a", "y">>

c_France == <<"F", "r", "a", "n", "c", "e">>

c_Brasil == <<"B", "r", "a", "s", "i", "l">>

c_South_Africa == <<"S", "o", "u", "t", "h", " ", "A", "f", "r", "i", "c", "a">>

c_empty == <<>>

Countries ==
    {c_Spain, c_Espana, c_ESPANA, c_Argentina, c_Mexico, c_MEXICO,
     c_United_States, c_Australia, c_New_Zealand, c_Nueva_Zelanda, c_Chile,
     c_Paraguay, c_France, c_Brasil, c_South_Africa, c_empty}

----------------------------------------------------------------------------
(* determinar_horario_verano                                               *)

\* coordenadas.get("pais", "")
pais_get(coords) == IF "pais" \in DOMAIN coords THEN coords.pais ELSE << >>

pais_raw(coords) == pais_get(coords)

\* coordenadas.get("pais", "").lower()
pais_lower(coords) == lower(pais_get(coords))

dst_spain_day_after(anio, mes, dia) ==
    IF anio < 1974 THEN FALSE
    ELSE IF anio >= 1974 /\ anio <= 1975 THEN
        (mes > 4 /\ mes < 10) \/ (mes = 4 /\ dia > 13) \/ (mes = 10 /\ dia <= 6)
    ELSE IF anio >= 1976 /\ anio <= 1996 THEN
        mes > 3 /\ mes < 10
    ELSE
        (mes > 3 /\ mes < 10) \/ (mes = 3 /\ dia >= 25) \/ (mes = 10 /\ dia <= 25)

\* The Spain branch (lines 263-288).
dst_spain(anio, mes, dia) ==
    IF anio < 1974 THEN FALSE
    ELSE IF anio >= 1974 /\ anio <= 1975 THEN
        (mes > 4 /\ mes < 10) \/ (mes = 4 /\ dia >= 13) \/ (mes = 10 /\ dia <= 6)
    ELSE IF anio >= 1976 /\ anio <= 1996 THEN
        mes > 3 /\ mes < 10
    ELSE
        (mes > 3 /\ mes < 10) \/ (mes = 3 /\ dia >= 25) \/ (mes = 10 /\ dia <= 25)

\* The northern branch (lines 292-305).
dst_norte(anio, mes, dia) ==
    IF anio < 1970 THEN FALSE
    ELSE (mes > 3 /\ mes < 10) \/ (mes = 3 /\ dia >= 25) \/ (mes = 10 /\ dia <= 25)

dst_sur_as_north(pais, mes, dia) ==
    IF ~(\E country \in south_dst_countries : Contains(country, pais)) THEN FALSE
    ELSE (mes > 3 /\ mes < 10) \/ (mes = 3 /\ dia >= 25) \/ (mes = 10 /\ dia <= 25)

\* The southern branch (lines 308-327).
dst_sur(pais, mes, dia) ==
    IF ~(\E country \in south_dst_countries : Contains(country, pais)) THEN FALSE
    ELSE (mes < 3 \/ mes > 10) \/ (mes = 3 /\ dia <= 25) \/ (mes = 10 /\ dia >= 25)

determinar_horario_verano(f, hemi, coords) ==
    LET pais == pais_lower(coords)
    IN  IF Contains(s_spain, pais) \/ Contains(s_espana, pais)
        THEN dst_spain(f.year, f.month, f.day)
        ELSE IF hemi = "norte" THEN dst_norte(f.year, f.month, f.day)
        ELSE dst_sur(pais, f.month, f.day)

----------------------------------------------------------------------------
(* SpecDst: determinar_horario_verano on every date of the pool, both      *)
(* hemispheres, every country text.                                        *)

DstYears == {1969, 1970, 1973, 1974, 1975, 1976, 1996, 1997, 2000}

DstDays == {1, 6, 7, 12, 13, 14, 15, 24, 25, 26}

InitDst ==
    /\ pc = "determinar_horario_verano"
    /\ fecha \in [year : DstYears, month : 1 .. 12, day : DstDays]
    /\ hemisferio \in {"norte", "sur"}
    /\ coordenadas \in [lat : {IF hemisferio = "norte" THEN Deg(40) ELSE 0 - Deg(34)},
                        lon : {0},
                        pais : Countries]
    /\ time_zone_df = Nil /\ is_dst = Nil /\ timezone_info = Nil
    /\ fnIdle
    /\ utcIdle
    /\ posIdle
    /\ chartIdle

DeterminarHorarioVerano ==
    /\ pc = "determinar_horario_verano"
    /\ is_dst' = determinar_horario_verano(fecha, hemisferio, coordenadas)
    /\ pc' = "return_dst"
    /\ UNCHANGED <<coordenadas, fecha, hemisferio, time_zone_df, timezone_info>>
    /\ UNCHANGED fnVars
    /\ UNCHANGED utcVars
    /\ UNCHANGED posVars
    /\ UNCHANGED chartVars

NextDst == DeterminarHorarioVerano

SpecDst == InitDst /\ [][NextDst]_vars

SpainTexts == {c_Spain, c_Espana, c_ESPANA}

SouthDstTexts == {c_Australia, c_New_Zealand, c_Nueva_Zelanda, c_Chile, c_Paraguay}

\* month and day as one number, so that a span of dates is an interval
MonthDay(f) == f.month * 100 + f.day

\* C3: for a Spanish country text the result does not depend on the
\* hemisphere and is true exactly in: 1974-1975 from April 13 to October 6;
\* 1976-1996 in months 4..9; from 1997 in months 4..9, March from day 25,
\* October up to day 25.  It is false before 1974 and true in June 2000.
C3_SpainDst ==
    (pc = "return_dst" /\ coordenadas.pais \in SpainTexts) =>
        LET y == fecha.year
            m == fecha.month
            d == fecha.day
        IN  /\ (y < 1974) => (is_dst = FALSE)
            /\ (y \in 1974 .. 1975) =>
                   (is_dst <=> (MonthDay(fecha) >= 413 /\ MonthDay(fecha) <= 1006))
            /\ (y \in 1976 .. 1996) => (is_dst <=> m \in 4 .. 9)
            /\ (y >= 1997) =>
                   (is_dst <=> (m \in 4 .. 9 \/ (m = 3 /\ d >= 25) \/ (m = 10 /\ d <= 25)))
            /\ (y = 2000 /\ m = 6) => (is_dst = TRUE)

\* C3 witness: a Spanish date in the southern-hemisphere call, on the first
\* day of the 1974 window, has been decided.
C3_Witness ==
    /\ pc = "return_dst"
    /\ coordenadas.pais = c_ESPANA
    /\ hemisferio = "sur"
    /\ fecha = [year |-> 1974, month |-> 4, day |-> 13]
    /\ is_dst = TRUE

\* C4: for a country that is not Spain: in the north, false before 1970 and
\* otherwise true exactly in months 4..9, March from day 25, October up to
\* day 25; in the south, false unless the country is Australia, New Zealand,
\* Chile or Paraguay, and for those true exactly when month < 3, month > 10,
\* March up to day 25, October from day 25.
C4_OtherDst ==
    (pc = "return_dst" /\ coordenadas.pais \notin SpainTexts) =>
        LET y == fecha.year
            m == fecha.month
            d == fecha.day
        IN  /\ (hemisferio = "norte" /\ y < 1970) => (is_dst = FALSE)
            /\ (hemisferio = "norte" /\ y >= 1970) =>
                   (is_dst <=> (m \in 4 .. 9 \/ (m = 3 /\ d >= 25) \/ (m = 10 /\ d <= 25)))
            /\ (hemisferio = "sur" /\ coordenadas.pais \notin SouthDstTexts) =>
                   (is_dst = FALSE)
            /\ (hemisferio = "sur" /\ coordenadas.pais \in SouthDstTexts) =>
                   (is_dst <=> (m < 3 \/ m > 10 \/ (m = 3 /\ d <= 25) \/ (m = 10 /\ d >= 25)))

\* C4 witness: a southern allow-listed country on October 25 has been
\* decided to be in DST.
C4_Witness ==
    /\ pc = "return_dst"
    /\ coordenadas.pais = c_Nueva_Zelanda
    /\ hemisferio = "sur"
    /\ fecha.month = 10 /\ fecha.day = 25
    /\ is_dst = TRUE

----------------------------------------------------------------------------
(* obtener_zona_horaria: the normal path, the longitude estimate and the  *)
(* UTC default.  Offsets are in seconds: the table holds seconds, and an   *)
(* offset of h hours is h * HOUR.                                          *)

MINYEAR == 1

MAXYEAR == 9999

DAY == 86400

is_leap(y) == y % 4 = 0 /\ (y % 100 # 0 \/ y % 400 = 0)

days_in_month(y, mo) ==
    IF mo = 2 THEN (IF is_leap(y) THEN 29 ELSE 28)
    ELSE IF mo \in {4, 6, 9, 11} THEN 30 ELSE 31

\* Whether datetime.strptime(fecha, "%Y-%m-%d") returns; it raises ValueError
\* for a field out of its range.
date_parses(f) ==
    /\ f.year \in MINYEAR .. MAXYEAR
    /\ f.month \in 1 .. 12
    /\ f.day \in 1 .. days_in_month(f.year, f.month)

HOUR == 3600

\* Python's round(n / d), d > 0: to nearest, ties to the even integer.
round_div(n, d) ==
    LET q == n \div d
        r == n % d
    IN  IF 2 * r < d THEN q
        ELSE IF 2 * r > d THEN q + 1
        ELSE IF q % 2 = 0 THEN q ELSE q + 1

\* round(lon / 15), lon in fixed-point degrees
estimated_offset_of(lo) == round_div(lo, Deg(15))

\* f"{offset:+d}"
signed_text(n) == IF n >= 0 THEN "+" \o ToString(n) ELSE "-" \o ToString(0 - n)

\* The search loop of lines 164-171: index of the entry kept in closest_zone
\* after entries 1..i-1 have been seen (0: none yet), continued to the end.
\* a variant that replaces the entry kept on a tie
RECURSIVE closest_loop_last(_, _, _)
closest_loop_last(i, closest, est) ==
    IF i > Len(time_zone_df) THEN closest
    ELSE IF closest = 0
            \/ Abs(time_zone_df[i].utc_offset - est * HOUR)
                 <= Abs(time_zone_df[closest].utc_offset - est * HOUR)
         THEN closest_loop_last(i + 1, i, est)
         ELSE closest_loop_last(i + 1, closest, est)

RECURSIVE closest_loop(_, _, _)
closest_loop(i, closest, est) ==
    IF i > Len(time_zone_df) THEN closest
    ELSE IF closest = 0
            \/ Abs(time_zone_df[i].utc_offset - est * HOUR)
                 < Abs(time_zone_df[closest].utc_offset - est * HOUR)
         THEN closest_loop(i + 1, i, est)
         ELSE closest_loop(i + 1, closest, est)

\* name, abbreviation and offset chosen by lines 133-185
zone_choice(pais, lo, dst) ==
    LET est == estimated_offset_of(lo)
    IN  IF Contains(s_spain, pais) \/ Contains(s_espana, pais) THEN
            [name |-> "Europe/Madrid",
             abbr |-> IF dst THEN "CEST" ELSE "CET",
             offset |-> IF dst THEN 2 * HOUR ELSE 1 * HOUR]
        ELSE IF Contains(s_argentina, pais) THEN
            [name |-> "America/Argentina/Buenos_Aires",
             abbr |-> "ART",
             offset |-> (0 - 3) * HOUR]
        ELSE IF Contains(s_mexico, pais) \/ Contains(s_mexico_acento, pais) THEN
            [name |-> "America/Mexico_City",
             abbr |-> IF dst THEN "CDT" ELSE "CST",
             offset |-> IF dst THEN (0 - 5) * HOUR ELSE (0 - 6) * HOUR]
        ELSE IF Len(time_zone_df) > 0 THEN
            LET zone == time_zone_df[closest_loop(1, 0, est)]
            IN  [name |-> zone.timezone,
                 abbr |-> zone.abbreviation,
                 offset |-> IF dst /\ zone.dst = 1
                            THEN zone.utc_offset + HOUR ELSE zone.utc_offset]
        ELSE
            [name |-> "Estimated/GMT" \o signed_text(est),
             abbr |-> "GMT" \o signed_text(est),
             offset |-> est * HOUR]

hemisferio_of(la) == IF la >= 0 THEN "norte" ELSE "sur"

\* The try block of obtener_zona_horaria (lines 116-196) when it returns.
obtener_zona_horaria_try(coords, f) ==
    LET hemi == hemisferio_of(coords.lat)
        dst  == determinar_horario_verano(f, hemi, coords)
        z    == zone_choice(pais_lower(coords), coords.lon, dst)
    IN  [name |-> z.name,
         offset |-> z.offset,
         abbreviation_STD |-> z.abbr,
         abbreviation_DST |-> z.abbr,
         is_dst |-> dst,
         hemisphere |-> hemi]

\* A coordinates record whose country is not a text (a JSON null) is written
\* with the key pais_null in place of pais: .lower() raises on it.
pais_not_text(coords) == "pais_null" \in DOMAIN coords

\* The try block raises: a key is missing (117, 118), the date does not
\* parse (119) or the country has no .lower() (132, 260).
try_raises(coords, f) ==
    \/ "lat" \notin DOMAIN coords
    \/ "lon" \notin DOMAIN coords
    \/ ~date_parses(f)
    \/ pais_not_text(coords)

\* The inner try raises: lines 205, 209 and 234.
estimate_raises(coords) ==
    \/ "lon" \notin DOMAIN coords
    \/ pais_not_text(coords)
    \/ "lat" \notin DOMAIN coords

\* a variant whose bands include their upper ends
estimate_offset_inclusive(pais, lo) ==
    IF Contains(s_spain, pais) \/ Contains(s_espana, pais) THEN 1
    ELSE IF Contains(s_argentina, pais) THEN 0 - 3
    ELSE IF Contains(s_mexico, pais) \/ Contains(s_mexico_acento, pais) THEN 0 - 6
    ELSE IF Contains(s_united_states, pais) \/ Contains(s_estados_unidos, pais) THEN
        (IF lo <= 0 - Deg(100) THEN 0 - 8
         ELSE IF lo <= 0 - Deg(90) THEN 0 - 7
         ELSE IF lo <= 0 - Deg(75) THEN 0 - 6
         ELSE 0 - 5)
    ELSE estimated_offset_of(lo)

\* estimated_offset of lines 206-226, in hours
estimate_offset(pais, lo) ==
    IF Contains(s_spain, pais) \/ Contains(s_espana, pais) THEN 1
    ELSE IF Contains(s_argentina, pais) THEN 0 - 3
    ELSE IF Contains(s_mexico, pais) \/ Contains(s_mexico_acento, pais) THEN 0 - 6
    ELSE IF Contains(s_united_states, pais) \/ Contains(s_estados_unidos, pais) THEN
        (IF lo < 0 - Deg(100) THEN 0 - 8
         ELSE IF lo < 0 - Deg(90) THEN 0 - 7
         ELSE IF lo < 0 - Deg(75) THEN 0 - 6
         ELSE 0 - 5)
    ELSE estimated_offset_of(lo)

\* The record of lines 228-236.
obtener_zona_horaria_estimate(coords) ==
    LET est == estimate_offset(pais_lower(coords), coords.lon)
    IN  [name |-> "GMT" \o signed_text(est),
         offset |-> est * HOUR,
         abbreviation_STD |-> "GMT" \o signed_text(est),
         abbreviation_DST |-> "GMT" \o signed_text(est),
         is_dst |-> FALSE,
         hemisphere |-> hemisferio_of(coords.lat),
         lon |-> coords.lon]

utc_default_unflagged ==
    [name |-> "UTC", offset |-> 0, abbreviation_STD |-> "UTC",
     abbreviation_DST |-> "UTC", is_dst |-> FALSE, hemisphere |-> "norte"]

\* The record of lines 240-248.
utc_default ==
    [name |-> "UTC", offset |-> 0, abbreviation_STD |-> "UTC",
     abbreviation_DST |-> "UTC", is_dst |-> FALSE, hemisphere |-> "norte",
     estimated |-> TRUE]

obtener_zona_horaria(coords, f) ==
    IF ~try_raises(coords, f) THEN obtener_zona_horaria_try(coords, f)
    ELSE IF ~estimate_raises(coords) THEN obtener_zona_horaria_estimate(coords)
    ELSE utc_default

----------------------------------------------------------------------------
(* SpecTz: obtener_zona_horaria for cities of the pool.                    *)

\* Tables as preload_resources leaves them (a field that is not all digits
\* is loaded as 0).
TableEurope ==
    << [timezone |-> "Africa/Abidjan", country_code |-> "CI", abbreviation |-> "GMT",
        timestamp |-> 0, utc_offset |-> 0, dst |-> 0],
       [timezone |-> "Europe/Paris", country_code |-> "FR", abbreviation |-> "CEST",
        timestamp |-> 0, utc_offset |-> 7200, dst |-> 1],
       [timezone |-> "Europe/Paris", country_code |-> "FR", abbreviation |-> "CET",
        timestamp |-> 0, utc_offset |-> 3600, dst |-> 0],
       [timezone |-> "Europe/Athens", country_code |-> "GR", abbreviation |-> "EET",
        timestamp |-> 0, utc_offset |-> 7200, dst |-> 0] >>

TableAsia ==
    << [timezone |-> "Asia/Kolkata", country_code |-> "IN", abbreviation |-> "IST",
        timestamp |-> 0, utc_offset |-> 19800, dst |-> 0],
       [timezone |-> "Australia/Sydney", country_code |-> "AU", abbreviation |-> "AEDT",
        timestamp |-> 0, utc_offset |-> 39600, dst |-> 1],
       [timezone |-> "America/New_York", country_code |-> "US", abbreviation |-> "EST",
        timestamp |-> 0, utc_offset |-> 0, dst |-> 0] >>

\* two entries at the same distance on either side of 2 hours
TableTies ==
    << [timezone |-> "Europe/Moscow", country_code |-> "RU", abbreviation |-> "MSK",
        timestamp |-> 0, utc_offset |-> 10800, dst |-> 1],
       [timezone |-> "Europe/Paris", country_code |-> "FR", abbreviation |-> "CET",
        timestamp |-> 0, utc_offset |-> 3600, dst |-> 0],
       [timezone |-> "Asia/Kolkata", country_code |-> "IN", abbreviation |-> "IST",
        timestamp |-> 0, utc_offset |-> 19800, dst |-> 0] >>

Tables == {<< >>, TableEurope, TableAsia, TableTies}

TzLats == {Deg(40) + 1, 0, 0 - Deg(34)}

TzLons == {0 - Deg(4) + 1, 0 - Deg(58), 0 - Deg(99), Deg(151), Deg(82) + 1, Deg(22) + 1, 0}

TzDates == [year : {1970, 1975, 2000}, month : {1, 3, 6, 10}, day : {15, 25, 26}]

InitTz ==
    /\ pc = "obtener_zona_horaria"
    /\ coordenadas \in [lat : TzLats, lon : TzLons, pais : Countries]
    /\ fecha \in TzDates
    /\ time_zone_df \in Tables
    /\ hemisferio = Nil /\ is_dst = Nil /\ timezone_info = Nil
    /\ fnIdle
    /\ utcIdle
    /\ posIdle
    /\ chartIdle

ObtenerZonaHoraria ==
    /\ pc = "obtener_zona_horaria"
    /\ IF try_raises(coordenadas, fecha)
       THEN UNCHANGED <<hemisferio, is_dst>>
       ELSE /\ hemisferio' = hemisferio_of(coordenadas.lat)
            /\ is_dst' = determinar_horario_verano(fecha, hemisferio', coordenadas)
    /\ timezone_info' = obtener_zona_horaria(coordenadas, fecha)
    /\ pc' = "return_tz"
    /\ UNCHANGED <<coordenadas, fecha, time_zone_df>>
    /\ UNCHANGED fnVars
    /\ UNCHANGED utcVars
    /\ UNCHANGED posVars
    /\ UNCHANGED chartVars

NextTz == ObtenerZonaHoraria

SpecTz == InitTz /\ [][NextTz]_vars

\* C2: whatever the longitude and the table, a Spanish country text yields
\* Europe/Madrid with offset 2 under DST and 1 otherwise; Argentina yields
\* America/Argentina/Buenos_Aires with offset -3 on every date; Mexico yields
\* America/Mexico_City with offset -5 under DST and -6 otherwise.  Madrid,
\* Spain on 2000-06-15 gets offset 2 with is_dst true.
C2_CountryOverrides ==
    (pc = "return_tz") =>
        LET p == coordenadas.pais
            dst == determinar_horario_verano(fecha, hemisferio, coordenadas)
        IN  /\ timezone_info.is_dst = dst
            /\ (p \in SpainTexts) =>
                   /\ timezone_info.name = "Europe/Madrid"
                   /\ timezone_info.offset = IF dst THEN 2 * 3600 ELSE 3600
            /\ (p = c_Argentina) =>
                   /\ timezone_info.name = "America/Argentina/Buenos_Aires"
                   /\ timezone_info.offset = 0 - 3 * 3600
            /\ (p \in {c_Mexico, c_MEXICO}) =>
                   /\ timezone_info.name = "America/Mexico_City"
                   /\ timezone_info.offset = IF dst THEN 0 - 5 * 3600 ELSE 0 - 6 * 3600
            /\ (p = c_Spain /\ fecha = [year |-> 2000, month |-> 6, day |-> 15]) =>
                   /\ timezone_info.offset = 2 * 3600
                   /\ timezone_info.is_dst = TRUE

\* C2 witness: Madrid (40.5 N, 3.5 W), Spain, 2000-06-15, resolved against a
\* non-empty table to Europe/Madrid under DST.
C2_Witness ==
    /\ pc = "return_tz"
    /\ coordenadas = [lat |-> Deg(40) + 1, lon |-> 0 - Deg(4) + 1, pais |-> c_Spain]
    /\ fecha = [year |-> 2000, month |-> 6, day |-> 15]
    /\ time_zone_df = TableEurope
    /\ timezone_info.name = "Europe/Madrid"
    /\ timezone_info.offset = 2 * 3600
    /\ timezone_info.is_dst = TRUE

OverrideTexts == SpainTexts \cup {c_Argentina, c_Mexico, c_MEXICO}

\* Distance in seconds from entry i of the table to round(lon / 15) hours.
OffsetDistance(i) ==
    Abs(time_zone_df[i].utc_offset - round_div(coordenadas.lon, Deg(15)) * HOUR)

\* C20: with no country override and a non-empty table the entry adopted
\* minimises the distance of its offset to round(lon / 15) over all entries
\* and is the first such entry; its name and abbreviation are returned, and
\* its offset plus one hour exactly when the date is flagged DST and the
\* entry's dst flag is 1, otherwise its offset.
C20_ClosestEntry ==
    (pc = "return_tz" /\ coordenadas.pais \notin OverrideTexts /\ time_zone_df # << >>) =>
        \E i \in 1 .. Len(time_zone_df) :
            /\ \A j \in 1 .. Len(time_zone_df) : OffsetDistance(i) <= OffsetDistance(j)
            /\ \A j \in 1 .. (i - 1) : OffsetDistance(i) < OffsetDistance(j)
            /\ timezone_info.name = time_zone_df[i].timezone
            /\ timezone_info.abbreviation_STD = time_zone_df[i].abbreviation
            /\ timezone_info.offset =
                   IF timezone_info.is_dst /\ time_zone_df[i].dst = 1
                   THEN time_zone_df[i].utc_offset + HOUR
                   ELSE time_zone_df[i].utc_offset

\* C20 witness: at 22.5 E in France on a DST date the table with entries at
\* 3 h and 1 h, both one hour from the estimate 2, gave the first one,
\* Europe/Moscow, with its offset raised to 4 h.
C20_Witness ==
    /\ pc = "return_tz"
    /\ coordenadas.pais = c_France
    /\ coordenadas.lon = Deg(22) + 1
    /\ time_zone_df = TableTies
    /\ timezone_info.is_dst = TRUE
    /\ timezone_info.name = "Europe/Moscow"
    /\ timezone_info.offset = 4 * HOUR

----------------------------------------------------------------------------
(* SpecTzAny: obtener_zona_horaria for records with a key missing or a     *)
(* country that is no text, and for dates that do not parse.               *)

AnyCoords ==
    [lat : {Deg(40) + 1, 0 - Deg(34)},
     lon : {0 - Deg(4) + 1, 0 - Deg(118), 0 - Deg(100), 0 - Deg(95), 0 - Deg(90),
            0 - Deg(80), 0 - Deg(75), Deg(82) + 1},
     pais : {c_Spain, c_ESPANA, c_Argentina, c_Mexico, c_United_States, c_France, c_empty}]
    \cup [lat : {Deg(40) + 1, 0 - Deg(34)}, lon : {0 - Deg(4) + 1, Deg(82) + 1}]
    \cup [lat : {Deg(40) + 1}, pais : {c_Spain, c_France}]
    \cup [lon : {0 - Deg(4) + 1}, pais : {c_Spain, c_France}]
    \cup [lat : {0 - Deg(34)}, lon : {Deg(82) + 1}, pais_null : {TRUE}]
    \cup {[nombre |-> "?"]}

\* 2000-06-15 and 1975-10-25, and the texts 1999-02-29 and 2000-13-01
AnyDates ==
    {[year |-> 2000, month |-> 6, day |-> 15], [year |-> 1975, month |-> 10, day |-> 25],
     [year |-> 1999, month |-> 2, day |-> 29], [year |-> 2000, month |-> 13, day |-> 1]}

InitTzAny ==
    /\ pc = "obtener_zona_horaria"
    /\ coordenadas \in AnyCoords
    /\ fecha \in AnyDates
    /\ time_zone_df \in Tables
    /\ hemisferio = Nil /\ is_dst = Nil /\ timezone_info = Nil
    /\ fnIdle
    /\ utcIdle
    /\ posIdle
    /\ chartIdle

SpecTzAny == InitTzAny /\ [][NextTz]_vars

\* line 119 raises for the date
DateFails ==
    \/ fecha.month \notin 1 .. 12
    \/ fecha.day > days_in_month(fecha.year, fecha.month)

\* a key the estimate reads is missing, or the country is no text
RecordFails ==
    \/ "lat" \notin DOMAIN coordenadas
    \/ "lon" \notin DOMAIN coordenadas
    \/ "pais_null" \in DOMAIN coordenadas

NoOverrideText ==
    "pais" \in DOMAIN coordenadas => coordenadas.pais \in {c_France, c_empty}

\* C14: the call returns for every record and date; when the normal path
\* fails and the record can be read, the result is the longitude estimate
\* with is_dst false (round(lon / 15) when no country text overrides it);
\* when the record cannot be read, the result is UTC with offset 0, is_dst
\* false and estimated true; every result carries name, offset, is_dst and
\* hemisphere.
C14_TzNeverRaises ==
    (pc = "return_tz") =>
        /\ {"name", "offset", "is_dst", "hemisphere"} \subseteq DOMAIN timezone_info
        /\ RecordFails =>
               /\ timezone_info.name = "UTC"
               /\ timezone_info.offset = 0
               /\ timezone_info.is_dst = FALSE
               /\ "estimated" \in DOMAIN timezone_info
               /\ timezone_info.estimated = TRUE
        /\ (DateFails /\ ~RecordFails) =>
               /\ timezone_info.is_dst = FALSE
               /\ "estimated" \notin DOMAIN timezone_info
               /\ timezone_info.lon = coordenadas.lon
               /\ NoOverrideText =>
                      timezone_info.offset = round_div(coordenadas.lon, Deg(15)) * HOUR
        /\ (~DateFails /\ ~RecordFails) =>
               timezone_info = obtener_zona_horaria_try(coordenadas, fecha)

\* C14 witness: for the text 1999-02-29 at 34 S, 82.5 E with no country key
\* the estimate GMT+6 was returned.
C14_Witness ==
    /\ pc = "return_tz"
    /\ coordenadas = [lat |-> 0 - Deg(34), lon |-> Deg(82) + 1]
    /\ fecha = [year |-> 1999, month |-> 2, day |-> 29]
    /\ timezone_info.name = "GMT+6"
    /\ timezone_info.offset = 6 * HOUR
    /\ timezone_info.hemisphere = "sur"
    /\ timezone_info.is_dst = FALSE

\* The four-band table keyed to the thresholds -100, -90 and -75, in hours.
LongitudeBand(lo) ==
    IF lo < 0 - Deg(100) THEN 0 - 8
    ELSE IF lo < 0 - Deg(90) THEN 0 - 7
    ELSE IF lo < 0 - Deg(75) THEN 0 - 6
    ELSE 0 - 5

\* The country text of the record ('' when the key is absent).
CountryText == IF "pais" \in DOMAIN coordenadas THEN coordenadas.pais ELSE c_empty

\* The estimate was returned: the normal path failed and the record was read.
OnEstimatePath == pc = "return_tz" /\ DateFails /\ ~RecordFails

\* C21 as stated: on the fallback path Spain, Argentina and Mexico get 1, -3
\* and -6 without DST adjustment, and every other country gets the offset of
\* the four-band longitude table.
C21_BandsForEveryOtherCountry ==
    OnEstimatePath =>
        /\ timezone_info.is_dst = FALSE
        /\ timezone_info.offset =
               (IF CountryText \in SpainTexts THEN 1
                ELSE IF CountryText = c_Argentina THEN 0 - 3
                ELSE IF CountryText \in {c_Mexico, c_MEXICO} THEN 0 - 6
                ELSE LongitudeBand(coordenadas.lon)) * HOUR

\* C21 amended: the same, but the four-band table applies to a country text
\* containing 'united states' or 'estados unidos' only; every other
\* unmatched country gets round(lon / 15).
C21_BandsForUnitedStates ==
    OnEstimatePath =>
        /\ timezone_info.is_dst = FALSE
        /\ timezone_info.offset =
               (IF CountryText \in SpainTexts THEN 1
                ELSE IF CountryText = c_Argentina THEN 0 - 3
                ELSE IF CountryText \in {c_Mexico, c_MEXICO} THEN 0 - 6
                ELSE IF CountryText = c_United_States
                     THEN LongitudeBand(coordenadas.lon)
                ELSE round_div(coordenadas.lon, Deg(15))) * HOUR

\* C21 witness: for the text 1999-02-29 a city of the United States at
\* exactly 100 W got the estimate -7.
C21_Witness ==
    /\ pc = "return_tz"
    /\ fecha = [year |-> 1999, month |-> 2, day |-> 29]
    /\ "pais" \in DOMAIN coordenadas
    /\ coordenadas.pais = c_United_States
    /\ coordenadas.lon = 0 - Deg(100)
    /\ timezone_info.offset = (0 - 7) * HOUR
    /\ timezone_info.name = "GMT-7"

----------------------------------------------------------------------------
(* preload_resources: the timezone table read from time_zone.csv.  A field *)
(* of a row is the sequence of its characters.                             *)

ascii_digit ==
    ("0" :> 0) @@ ("1" :> 1) @@ ("2" :> 2) @@ ("3" :> 3) @@ ("4" :> 4) @@
    ("5" :> 5) @@ ("6" :> 6) @@ ("7" :> 7) @@ ("8" :> 8) @@ ("9" :> 9)

\* characters of the digit category that are not decimal digits
other_digits == {"²"}

\* str.isdigit()
isdigit(text) ==
    /\ Len(text) > 0
    /\ \A k \in 1 .. Len(text) : text[k] \in DOMAIN ascii_digit \cup other_digits

\* str.replace('.', '', 1)
replace_first_dot(text) ==
    IF \E k \in 1 .. Len(text) : text[k] = "."
    THEN LET d == CHOOSE k \in 1 .. Len(text) :
                      text[k] = "." /\ \A j \in 1 .. k - 1 : text[j] # "."
         IN  SubSeq(text, 1, d - 1) \o SubSeq(text, d + 1, Len(text))
    ELSE text

RECURSIVE decimal_value(_)
decimal_value(text) ==
    IF text = << >> THEN 0
    ELSE decimal_value(SubSeq(text, 1, Len(text) - 1)) * 10 + ascii_digit[text[Len(text)]]

\* int(text) / float(text) raise ValueError on a character that is no
\* decimal digit (the text has passed the isdigit test)
number_raises(text) == \E k \in 1 .. Len(text) : text[k] \in other_digits

\* float(text) of digits with at most one '.', in whole seconds: the
\* digits before the '.' (the offsets of the table have no fraction)
float_value(text) ==
    IF \E k \in 1 .. Len(text) : text[k] = "."
    THEN LET d == CHOOSE k \in 1 .. Len(text) : text[k] = "."
         IN  decimal_value(SubSeq(text, 1, d - 1))
    ELSE decimal_value(text)

\* line 73
timestamp_field(text) == IF isdigit(text) THEN decimal_value(text) ELSE 0

\* line 74
utc_offset_field(text) == IF isdigit(replace_first_dot(text)) THEN float_value(text) ELSE 0

\* line 75
dst_field(text) == IF isdigit(text) THEN decimal_value(text) ELSE 0

\* lines 69-76: a conversion of the row raises
row_raises(row) ==
    \/ isdigit(row[4]) /\ number_raises(row[4])
    \/ isdigit(replace_first_dot(row[5])) /\ number_raises(row[5])
    \/ isdigit(row[6]) /\ number_raises(row[6])

\* lines 69-76: the dict appended for a row
table_entry(row) ==
    [timezone |-> row[1], country_code |-> row[2], abbreviation |-> row[3],
     timestamp |-> timestamp_field(row[4]),
     utc_offset |-> utc_offset_field(row[5]),
     dst |-> dst_field(row[6])]

\* line 68
enough_columns(row) == Len(row) >= 6

----------------------------------------------------------------------------
(* SpecPreload: preload_resources on files of up to three rows of the      *)
(* pool, and on a file that does not open.                                 *)

RowParis == << "Europe/Paris", "FR", "CET", <<"0">>, <<"3", "6", "0", "0">>, <<"0">> >>

RowNewYork ==
    << "America/New_York", "US", "EST", <<"0">>, <<"-", "1", "8", "0", "0", "0">>, <<"0">> >>

RowKolkata ==
    << "Asia/Kolkata", "IN", "IST", <<"x">>, <<"1", "9", "8", "0", "0", ".", "0">>, <<"1">> >>

RowShort == << "Europe/Athens", "GR", "EET", <<"0">>, <<"7", "2", "0", "0">> >>

RowSuperscript == << "Pacific/Apia", "WS", "", << >>, <<"²">>, <<"1", "2">> >>

CsvRows == {RowParis, RowNewYork, RowKolkata, RowShort, RowSuperscript}

CsvFiles ==
    {<< >>} \cup {<<a>> : a \in CsvRows}
            \cup {<<a, b>> : a \in CsvRows, b \in CsvRows}
            \cup {<<a, b, c>> : a \in CsvRows, b \in CsvRows, c \in CsvRows}

InitPreload ==
    /\ pc = "preload_resources"
    /\ csv_file \in {[exists |-> FALSE]} \cup {[exists |-> TRUE, rows |-> f] : f \in CsvFiles}
    /\ csv_reader = << >>
    /\ time_zone_df = Nil
    /\ cache = Nil /\ requests = Nil /\ city_data = Nil
    /\ longitude = Nil /\ asc_longitude = Nil /\ sign = Nil
    /\ house = Nil /\ angle = Nil /\ aspect_type = Nil
    /\ sign_position = Nil /\ ascIdle
    /\ coordenadas = Nil /\ fecha = Nil /\ hemisferio = Nil
    /\ is_dst = Nil /\ timezone_info = Nil
    /\ utcIdle /\ posIdle /\ chartIdle

PreloadFrame ==
    /\ UNCHANGED <<longitude, asc_longitude, sign, house, angle, aspect_type,
                   sign_position, ascVars, csv_file, cache, requests, city_data>>
    /\ UNCHANGED <<coordenadas, fecha, hemisferio, is_dst, timezone_info>>
    /\ UNCHANGED <<utcVars, posVars, chartVars>>

\* lines 65-67: the file opens
OpenCsv ==
    /\ pc = "preload_resources"
    /\ csv_file.exists
    /\ time_zone_df' = << >>
    /\ csv_reader' = csv_file.rows
    /\ pc' = "csv_row"
    /\ PreloadFrame

\* lines 66 and 78-80: open() raises
OpenCsvRaises ==
    /\ pc = "preload_resources"
    /\ ~csv_file.exists
    /\ time_zone_df' = << >>
    /\ pc' = "preloaded"
    /\ UNCHANGED csv_reader
    /\ PreloadFrame

\* lines 67-76: one iteration of the loop over the rows
CsvRow ==
    /\ pc = "csv_row"
    /\ csv_reader # << >>
    /\ LET row == Head(csv_reader)
       IN  /\ ~(enough_columns(row) /\ row_raises(row))
           /\ time_zone_df' = IF enough_columns(row)
                              THEN Append(time_zone_df, table_entry(row))
                              ELSE time_zone_df
    /\ csv_reader' = Tail(csv_reader)
    /\ UNCHANGED pc
    /\ PreloadFrame

\* lines 73-75 and 78-80: a conversion raises inside the loop
CsvRowRaises ==
    /\ pc = "csv_row"
    /\ csv_reader # << >>
    /\ enough_columns(Head(csv_reader)) /\ row_raises(Head(csv_reader))
    /\ time_zone_df' = << >>
    /\ pc' = "preloaded"
    /\ UNCHANGED csv_reader
    /\ PreloadFrame

\* line 77: the reader is exhausted
CsvEnd ==
    /\ pc = "csv_row"
    /\ csv_reader = << >>
    /\ pc' = "preloaded"
    /\ UNCHANGED <<time_zone_df, csv_reader>>
    /\ PreloadFrame

NextPreload == OpenCsv \/ OpenCsvRaises \/ CsvRow \/ CsvRowRaises \/ CsvEnd

SpecPreload == InitPreload /\ [][NextPreload]_vars

\* a signed decimal number: an optional '-', digits, at most one '.'
IsNumber(text) ==
    LET body == IF text # << >> /\ text[1] = "-" THEN Tail(text) ELSE text
        bare == replace_first_dot(body)
    IN  Len(bare) > 0 /\ \A k \in 1 .. Len(bare) : bare[k] \in DOMAIN ascii_digit

NumberValue(text) ==
    IF text[1] = "-" THEN 0 - float_value(Tail(text)) ELSE float_value(text)

FieldAsWritten(text) == IF IsNumber(text) THEN NumberValue(text) ELSE 0

WideRows == SelectSeq(csv_file.rows, enough_columns)

\* C22: after the load the table holds one entry per row of at least six
\* columns, in row order, and each of timestamp, offset and dst is the
\* number written in the row, or 0 when the field is not a number.
C22_LoadedAsWritten ==
    (pc = "preloaded" /\ csv_file.exists) =>
        /\ Len(time_zone_df) = Len(WideRows)
        /\ \A k \in 1 .. Len(WideRows) :
               /\ k <= Len(time_zone_df)
               /\ time_zone_df[k].timezone = WideRows[k][1]
               /\ time_zone_df[k].country_code = WideRows[k][2]
               /\ time_zone_df[k].abbreviation = WideRows[k][3]
               /\ time_zone_df[k].timestamp = FieldAsWritten(WideRows[k][4])
               /\ time_zone_df[k].utc_offset = FieldAsWritten(WideRows[k][5])
               /\ time_zone_df[k].dst = FieldAsWritten(WideRows[k][6])

----------------------------------------------------------------------------
(* convertir_a_utc.  A datetime is a civil date and time of day; its       *)
(* arithmetic goes through the proleptic Gregorian day number, as          *)
(* datetime's does, and is confined to the years MINYEAR..MAXYEAR.         *)

days_before_year(y) ==
    LET p == y - 1
    IN  p * 365 + (p \div 4) - (p \div 100) + (p \div 400)

RECURSIVE days_before_month(_, _)
days_before_month(y, mo) ==
    IF mo = 1 THEN 0
    ELSE days_before_month(y, mo - 1) + days_in_month(y, mo - 1)

\* date.toordinal(): 0001-01-01 is day 1
ymd2ord(y, mo, d) == days_before_year(y) + days_before_month(y, mo) + d

\* date.fromordinal()
ord2ymd(n) ==
    LET n0   == n - 1
        n400 == n0 \div 146097
        r400 == n0 % 146097
        n100 == r400 \div 36524
        r100 == r400 % 36524
        n4   == r100 \div 1461
        r4   == r100 % 1461
        n1   == r4 \div 365
        r1   == r4 % 365
        y    == n400 * 400 + n100 * 100 + n4 * 4 + n1 + 1
    IN  IF n1 = 4 \/ n100 = 4
        THEN [year |-> y - 1, month |-> 12, day |-> 31]
        ELSE LET mo == CHOOSE k \in 1 .. 12 :
                           /\ days_before_month(y, k) <= r1
                           /\ r1 < days_before_month(y, k) + days_in_month(y, k)
             IN  [year |-> y, month |-> mo, day |-> r1 - days_before_month(y, mo) + 1]

MAXORDINAL == ymd2ord(MAXYEAR, 12, 31)

\* Whether datetime.strptime(f"{fecha} {hora}", "%Y-%m-%d %H:%M") returns;
\* it raises ValueError for a field out of its range.
parses(f, h) ==
    /\ date_parses(f)
    /\ h.hour \in 0 .. 23
    /\ h.minute \in 0 .. 59

\* datetime.strptime(f"{fecha} {hora}", "%Y-%m-%d %H:%M")
strptime(f, h) ==
    [ord |-> ymd2ord(f.year, f.month, f.day), sec |-> h.hour * 3600 + h.minute * 60]

\* The civil fields of a datetime given as day number and second of day.
civil(ord, sec) ==
    LET d == ord2ymd(ord)
    IN  [year |-> d.year, month |-> d.month, day |-> d.day,
         hour |-> sec \div 3600, minute |-> (sec % 3600) \div 60, second |-> sec % 60]

\* dt.replace(tzinfo=timezone(timedelta(seconds=off))).astimezone(timezone.utc):
\* raises ValueError unless -24h < off < 24h, OverflowError when the UTC
\* date would leave MINYEAR..MAXYEAR.
astimezone_utc_added(local, off) ==
    LET total == local.sec + off
        ord   == local.ord + (total \div DAY)
    IN  IF Abs(off) >= DAY \/ ord < 1 \/ ord > MAXORDINAL
        THEN [raised |-> TRUE]
        ELSE [raised |-> FALSE, dt |-> civil(ord, total % DAY)]

astimezone_utc(local, off) ==
    LET total == local.sec - off
        ord   == local.ord + (total \div DAY)
    IN  IF Abs(off) >= DAY \/ ord < 1 \/ ord > MAXORDINAL
        THEN [raised |-> TRUE]
        ELSE [raised |-> FALSE, dt |-> civil(ord, total % DAY)]

\* The except block (lines 357-371): it parses the same text again, outside
\* any try, so its exceptions reach the caller.
convertir_a_utc_except(f, h, tz) ==
    IF ~parses(f, h) THEN [raised |-> TRUE]
    ELSE LET dt_local == strptime(f, h)
         IN  IF "lon" \in DOMAIN tz
             THEN astimezone_utc(dt_local, estimated_offset_of(tz.lon) * HOUR)
             ELSE [raised |-> FALSE, dt |-> civil(dt_local.ord, dt_local.sec)]

\* convertir_a_utc: the try block and, when it raises, the except block.
convertir_a_utc(f, h, tz) ==
    LET first == IF parses(f, h) /\ "offset" \in DOMAIN tz
                 THEN astimezone_utc(strptime(f, h), tz.offset)
                 ELSE [raised |-> TRUE]
    IN  IF ~first.raised THEN first
        ELSE convertir_a_utc_except(f, h, tz)

----------------------------------------------------------------------------
(* SpecUtc: convertir_a_utc on dates at the ends of months, years and of   *)
(* the datetime range, with whole and fractional offsets.                  *)

UtcDates ==
    {f \in [year : {MINYEAR, 1999, 2000, MAXYEAR}, month : {1, 2, 3, 12},
            day : {1, 28, 29, 31}] : f.day <= days_in_month(f.year, f.month)}

UtcTimes == [hour : {0, 12, 23}, minute : {0, 30, 59}]

\* Texts shaped 'YYYY-MM-DD' and 'HH:MM' that name no date and no time:
\* 1999-02-29, 2000-13-01 and 24:00.
UnparsableDates ==
    {[year |-> 1999, month |-> 2, day |-> 29], [year |-> 2000, month |-> 13, day |-> 1]}

UnparsableTimes == {[hour |-> 24, minute |-> 0]}

\* -12h, -5h, -3h30, 0, 1h, 2h, 5h30, 5h45, 14h
UtcOffsets == {0 - 43200, 0 - 18000, 0 - 12600, 0, 3600, 7200, 19800, 20700, 50400}

\* Records shaped as obtener_zona_horaria returns them: from its normal
\* path, and from its longitude estimate (which adds "lon").
ResolvedZones ==
    {[name |-> "zone", offset |-> off, abbreviation_STD |-> "STD",
      abbreviation_DST |-> "STD", is_dst |-> FALSE, hemisphere |-> "norte"] :
        off \in UtcOffsets}
    \cup
    {[name |-> "GMT", offset |-> estimated_offset_of(lo) * HOUR,
      abbreviation_STD |-> "GMT", abbreviation_DST |-> "GMT", is_dst |-> FALSE,
      hemisphere |-> "norte", lon |-> lo] : lo \in {0 - Deg(58), Deg(82) + 1}}

InitUtc ==
    /\ pc = "convertir_a_utc"
    /\ fecha \in UtcDates \cup UnparsableDates
    /\ hora \in UtcTimes \cup UnparsableTimes
    /\ timezone_info \in ResolvedZones
    /\ dt_utc = Nil
    /\ coordenadas = Nil /\ hemisferio = Nil /\ time_zone_df = Nil /\ is_dst = Nil
    /\ fnIdle
    /\ posIdle
    /\ chartIdle

ConvertirAUtc ==
    /\ pc = "convertir_a_utc"
    /\ dt_utc' = convertir_a_utc(fecha, hora, timezone_info)
    /\ pc' = "return_utc"
    /\ UNCHANGED <<hora>>
    /\ UNCHANGED posVars
    /\ UNCHANGED chartVars
    /\ UNCHANGED tzVars
    /\ UNCHANGED fnVars

NextUtc == ConvertirAUtc

SpecUtc == InitUtc /\ [][NextUtc]_vars

\* Seconds from the returned instant to the local civil time read as if it
\* were UTC (the offset that was applied).
AppliedOffset ==
    (ymd2ord(fecha.year, fecha.month, fecha.day)
       - ymd2ord(dt_utc.dt.year, dt_utc.dt.month, dt_utc.dt.day)) * 86400
    + (hora.hour * 3600 + hora.minute * 60)
    - (dt_utc.dt.hour * 3600 + dt_utc.dt.minute * 60 + dt_utc.dt.second)

\* The returned instant with the offset added back, as civil date and time.
AddedBack ==
    LET total == dt_utc.dt.hour * 3600 + dt_utc.dt.minute * 60 + dt_utc.dt.second
                   + timezone_info.offset
        ord   == ymd2ord(dt_utc.dt.year, dt_utc.dt.month, dt_utc.dt.day)
                   + (total \div 86400)
    IN  civil(ord, total % 86400)

LocalCivil ==
    [year |-> fecha.year, month |-> fecha.month, day |-> fecha.day,
     hour |-> hora.hour, minute |-> hora.minute, second |-> 0]

WellFormedCivil(dt) ==
    /\ dt.year \in 1 .. 9999 /\ dt.month \in 1 .. 12
    /\ dt.day \in 1 .. days_in_month(dt.year, dt.month)
    /\ dt.hour \in 0 .. 23 /\ dt.minute \in 0 .. 59 /\ dt.second \in 0 .. 59

\* The local time minus the offset is a date of the years 1..9999.
UtcInRange ==
    LET secs == hora.hour * 3600 + hora.minute * 60 - timezone_info.offset
    IN  /\ ~(fecha.year = 1 /\ fecha.month = 1 /\ fecha.day = 1 /\ secs < 0)
        /\ ~(fecha.year = 9999 /\ fecha.month = 12 /\ fecha.day = 31 /\ secs >= 86400)

\* C5 as stated: for every well-formed local date and time and resolved
\* offset h the function returns the instant local - h, and adding h back
\* gives the local date and time.
C5_RoundTripEveryDate ==
    (pc = "return_utc" /\ parses(fecha, hora)) =>
        /\ ~dt_utc.raised
        /\ AppliedOffset = timezone_info.offset
        /\ AddedBack = LocalCivil

\* C5 amended: the same, for the dates and times whose instant local - h
\* lies in the years 1..9999.
C5_RoundTripInRange ==
    (pc = "return_utc" /\ parses(fecha, hora) /\ UtcInRange) =>
        /\ ~dt_utc.raised
        /\ WellFormedCivil(dt_utc.dt)
        /\ AppliedOffset = timezone_info.offset
        /\ AddedBack = LocalCivil

\* C5 witness: 2000-03-01 00:30 at +5h45 has been converted to
\* 2000-02-29 18:45, across the end of February of a leap year.
C5_Witness ==
    /\ pc = "return_utc"
    /\ fecha = [year |-> 2000, month |-> 3, day |-> 1]
    /\ hora = [hour |-> 0, minute |-> 30]
    /\ timezone_info.offset = 20700
    /\ ~dt_utc.raised
    /\ dt_utc.dt = [year |-> 2000, month |-> 2, day |-> 29,
                    hour |-> 18, minute |-> 45, second |-> 0]

\* The try block of convertir_a_utc raises: the text does not parse, the
\* offset cannot be attached, or the UTC date leaves the datetime range.
TryRaises ==
    \/ ~parses(fecha, hora)
    \/ astimezone_utc(strptime(fecha, hora), timezone_info.offset).raised

\* The local date and time read at the offset round(lon / 15).
LocalAtLonOffset ==
    astimezone_utc(strptime(fecha, hora), estimated_offset_of(timezone_info.lon) * HOUR)

\* C13: convertir_a_utc never raises to its caller; when the try block fails
\* it returns the local time read at round(lon / 15) if timezone_info carries
\* 'lon', and otherwise the input read as UTC.
C13_NeverRaises ==
    (pc = "return_utc") =>
        /\ ~dt_utc.raised
        /\ TryRaises =>
               IF "lon" \in DOMAIN timezone_info
               THEN dt_utc = LocalAtLonOffset
               ELSE dt_utc.dt = LocalCivil

----------------------------------------------------------------------------
(* calculate_positions_with_utc and calculate_positions.  The ephemeris    *)
(* and the house computation are outside the program: each query either    *)
(* raises or returns some longitude.                                       *)

None == << >>

Some(v) == << v >>

\* keys of the dict 'bodies', in insertion order
bodies ==
    << "SOL", "LUNA", "MERCURIO", "VENUS", "MARTE", "JÚPITER", "SATURNO",
       "URANO", "NEPTUNO", "PLUTÓN" >>

position(name, lng) == [name |-> name, longitude |-> lng, sign |-> get_sign(lng)]

\* Longitudes the ephemeris may answer with, and (asc, mc) pairs
\* calculate_asc_mc may answer with (0, 0 is its default after an error).
EphLongitudes == {Deg(10), Deg(200) + 1}

AscMcPairs == {<<0, 0>>, <<Deg(100) + 1, Deg(10)>>}

\* lines 464-466: the date and time strings are read as local time of a
\* zone one hour ahead of UTC
spain_tz_minutes == 60

\* Lines 446-448 and 463-466: the instant is written as '%d/%m/%Y' and
\* '%H:%M', read back, given the zone one hour ahead of UTC and converted
\* to UTC.
secondary_instant(u) ==
    LET day    == u \div 1440
        hour   == (u % 1440) \div 60
        minute == u % 60
    IN  (day * 1440 + hour * 60 + minute) - spain_tz_minutes

\* 'return []' of the except blocks (lines 455 and 531)
on_error_partial(acc) == acc

on_error(acc) == << >>

\* 'lat is not None and lon is not None' (lines 416 and 503)
angles_wanted(la, lo) == la # None /\ lo # None

InitPos ==
    /\ pc = "from_datetime"
    /\ utc_datetime \in {720, 1470}
    /\ lat \in {None, Some(0), Some(Deg(40))}
    /\ lon \in {None, Some(0), Some(0 - Deg(4))}
    /\ path = "primary"
    /\ t = Nil
    /\ positions = << >>
    /\ returned = Nil
    /\ fnIdle /\ tzIdle /\ utcIdle /\ chartIdle

\* An exception inside the try block of the running path.
Raise ==
    IF path = "primary"
    THEN /\ pc' = "except"
         /\ UNCHANGED <<utc_datetime, lat, lon, path, t, positions, returned>>
    ELSE /\ pc' = "return_positions"
         /\ returned' = on_error(positions)
         /\ UNCHANGED <<utc_datetime, lat, lon, path, t, positions>>

\* ts.from_datetime, eph['earth'] and the dict of bodies (lines 381-396;
\* lines 459-483 on the secondary path, which first re-reads the strings).
FromDatetime ==
    /\ pc = "from_datetime"
    /\ t' = IF path = "primary" THEN utc_datetime ELSE secondary_instant(utc_datetime)
    /\ positions' = << >>
    /\ pc' = "observe"
    /\ UNCHANGED <<utc_datetime, lat, lon, path, returned>>
    /\ UNCHANGED <<fnVars, tzVars, utcVars, chartVars>>

FromDatetimeRaises ==
    /\ pc = "from_datetime"
    /\ Raise
    /\ UNCHANGED <<fnVars, tzVars, utcVars, chartVars>>

\* One iteration of the loop over bodies (lines 398-414 / 485-501).
ObserveBody ==
    /\ pc = "observe"
    /\ Len(positions) < Len(bodies)
    /\ \E lng \in EphLongitudes :
           positions' = Append(positions, position(bodies[Len(positions) + 1], lng))
    /\ UNCHANGED <<pc, utc_datetime, lat, lon, path, t, returned>>
    /\ UNCHANGED <<fnVars, tzVars, utcVars, chartVars>>

ObserveBodyRaises ==
    /\ pc = "observe"
    /\ Len(positions) < Len(bodies)
    /\ Raise
    /\ UNCHANGED <<fnVars, tzVars, utcVars, chartVars>>

\* Lines 416-441 / 503-528: ASC and MC when both coordinates were given,
\* then 'return positions'.
AnglesAndReturn ==
    /\ pc = "observe"
    /\ Len(positions) = Len(bodies)
    /\ IF angles_wanted(lat, lon)
       THEN \E am \in AscMcPairs :
                returned' = positions \o << position("ASC", am[1]), position("MC", am[2]) >>
       ELSE returned' = positions
    /\ positions' = returned'
    /\ pc' = "return_positions"
    /\ UNCHANGED <<utc_datetime, lat, lon, path, t>>
    /\ UNCHANGED <<fnVars, tzVars, utcVars, chartVars>>

\* The sign or degree computation of an angle raises (a value that is not
\* a number).
AnglesRaise ==
    /\ pc = "observe"
    /\ Len(positions) = Len(bodies)
    /\ angles_wanted(lat, lon)
    /\ Raise
    /\ UNCHANGED <<fnVars, tzVars, utcVars, chartVars>>

\* Lines 442-452: the except block calls calculate_positions.
Fallback ==
    /\ pc = "except"
    /\ path' = "secondary"
    /\ pc' = "from_datetime"
    /\ UNCHANGED <<utc_datetime, lat, lon, t, positions, returned>>
    /\ UNCHANGED <<fnVars, tzVars, utcVars, chartVars>>

\* Lines 453-455: building the arguments of calculate_positions raises.
FallbackRaises ==
    /\ pc = "except"
    /\ returned' = on_error(positions)
    /\ path' = "secondary"
    /\ pc' = "return_positions"
    /\ UNCHANGED <<utc_datetime, lat, lon, t, positions>>
    /\ UNCHANGED <<fnVars, tzVars, utcVars, chartVars>>

NextPos ==
    \/ FromDatetime
    \/ FromDatetimeRaises
    \/ ObserveBody
    \/ ObserveBodyRaises
    \/ AnglesAndReturn
    \/ AnglesRaise
    \/ Fallback
    \/ FallbackRaises

SpecPos == InitPos /\ [][NextPos]_vars

\* C23: when the secondary path returns a chart, the instant it handed to
\* the ephemeris is the UTC instant calculate_positions_with_utc was given.
C23_SameInstant ==
    (pc = "return_positions" /\ path = "secondary" /\ returned # << >>)
        => t = utc_datetime

NamesOf(list) == [k \in 1 .. Len(list) |-> list[k].name]

TenBodies ==
    << "SOL", "LUNA", "MERCURIO", "VENUS", "MARTE", "JÚPITER", "SATURNO",
       "URANO", "NEPTUNO", "PLUTÓN" >>

\* C6: what calculate_positions_with_utc returns is the empty list, and then
\* both paths failed, or the ten bodies once each in order, followed by ASC
\* and then MC exactly when lat and lon were both given (0 counts as given).
\* Every failure ends in a return: no step leaves the call otherwise.
C6_AllOrNothing ==
    /\ pc \in {"from_datetime", "observe", "except", "return_positions"}
    /\ (pc = "return_positions") =>
           \/ returned = << >> /\ path = "secondary"
           \/ NamesOf(returned) =
                  IF lat # << >> /\ lon # << >>
                  THEN TenBodies \o << "ASC", "MC" >>
                  ELSE TenBodies

\* C6 witness: the primary path failed after some bodies, the secondary path
\* succeeded, and the list returned for lat = 0, lon = 0 holds all twelve.
C6_Witness ==
    /\ pc = "return_positions"
    /\ path = "secondary"
    /\ lat = << 0 >> /\ lon = << 0 >>
    /\ Len(returned) = 12
    /\ returned[11].name = "ASC" /\ returned[12].name = "MC"

----------------------------------------------------------------------------
(* calculate_asc_mc and calculate_asc_mc_skyfield.  swe.houses and the     *)
(* sidereal-time arithmetic are outside the program: each either raises or *)
(* returns a pair of longitudes in [0, 360).                               *)

\* pairs swe.houses may answer with
SweAnswers == {<<Deg(100) + 1, Deg(10)>>, <<Deg(354), Deg(270) + 1>>}

\* pairs the sidereal-time approximation may answer with
SkyfieldAnswers == {<<Deg(99), Deg(9)>>, <<0, Deg(180)>>}

skyfield_default_asc_only == <<0, Deg(180)>>

\* 'return 0, 0' of line 596
skyfield_default == <<0, 0>>

InitAscMc ==
    /\ pc = "calculate_asc_mc"
    /\ SWISSEPH_AVAILABLE \in BOOLEAN
    /\ t \in {720, 721, 722}
    /\ lat \in {Some(0), Some(Deg(40)), Some(0 - Deg(34))}
    /\ lon \in {Some(0), Some(0 - Deg(4)), Some(Deg(151))}
    /\ asc_mc = Nil
    /\ asc_errors = {}
    /\ longitude = Nil /\ asc_longitude = Nil /\ sign = Nil
    /\ house = Nil /\ angle = Nil /\ aspect_type = Nil /\ sign_position = Nil
    /\ ioIdle
    /\ utc_datetime = Nil /\ path = Nil /\ positions = Nil /\ returned = Nil
    /\ tzIdle /\ utcIdle /\ chartIdle

AscMcFrame ==
    /\ UNCHANGED <<longitude, asc_longitude, sign, house, angle, aspect_type,
                   sign_position, SWISSEPH_AVAILABLE, ioVars>>
    /\ UNCHANGED <<tzVars, utcVars, posVars, chartVars>>

\* lines 540-551: the precise computation returns
SweHouses ==
    /\ pc = "calculate_asc_mc"
    /\ SWISSEPH_AVAILABLE
    /\ \E am \in SweAnswers : asc_mc' = am
    /\ pc' = "return_asc_mc"
    /\ UNCHANGED asc_errors
    /\ AscMcFrame

\* lines 556-559: the precise computation raises and the except block calls
\* calculate_asc_mc_skyfield
SweHousesRaises ==
    /\ pc = "calculate_asc_mc"
    /\ SWISSEPH_AVAILABLE
    /\ asc_errors' = asc_errors \cup {"calculate_asc_mc"}
    /\ pc' = "calculate_asc_mc_skyfield"
    /\ UNCHANGED asc_mc
    /\ AscMcFrame

\* lines 552-554: without Swiss Ephemeris the approximation is called
SweUnavailable ==
    /\ pc = "calculate_asc_mc"
    /\ ~SWISSEPH_AVAILABLE
    /\ pc' = "calculate_asc_mc_skyfield"
    /\ UNCHANGED <<asc_mc, asc_errors>>
    /\ AscMcFrame

\* lines 563-591: the approximation returns
Skyfield ==
    /\ pc = "calculate_asc_mc_skyfield"
    /\ \E am \in SkyfieldAnswers : asc_mc' = am
    /\ pc' = "return_asc_mc"
    /\ UNCHANGED asc_errors
    /\ AscMcFrame

\* lines 593-596: the approximation raises
SkyfieldRaises ==
    /\ pc = "calculate_asc_mc_skyfield"
    /\ asc_errors' = asc_errors \cup {"calculate_asc_mc_skyfield"}
    /\ asc_mc' = skyfield_default
    /\ pc' = "return_asc_mc"
    /\ AscMcFrame

NextAscMc ==
    \/ SweHouses
    \/ SweHousesRaises
    \/ SweUnavailable
    \/ Skyfield
    \/ SkyfieldRaises

SpecAscMc == InitAscMc /\ [][NextAscMc]_vars

\* C15 as stated: Ascendant and Midheaven are both 0 whenever an exception
\* occurred in either computation, the precise one or the approximate one.
C15_ZeroOnAnyError ==
    (pc = "return_asc_mc" /\ asc_errors # {}) => asc_mc = <<0, 0>>

\* C15 amended: both are 0 whenever the approximate computation raised; when
\* only the precise one raised, the answer of the approximate computation is
\* returned; with no exception, the answer of the computation that ran.
C15_ZeroWhenApproximationRaises ==
    (pc = "return_asc_mc") =>
        /\ ("calculate_asc_mc_skyfield" \in asc_errors) => asc_mc = <<0, 0>>
        /\ (asc_errors = {"calculate_asc_mc"}) => asc_mc \in SkyfieldAnswers
        /\ (asc_errors = {}) =>
               asc_mc \in (IF SWISSEPH_AVAILABLE THEN SweAnswers ELSE SkyfieldAnswers)

\* C15 witness: the precise computation raised, then the approximate one,
\* and 0, 0 was returned.
C15_Witness ==
    /\ pc = "return_asc_mc"
    /\ asc_errors = {"calculate_asc_mc", "calculate_asc_mc_skyfield"}
    /\ asc_mc = <<0, 0>>

----------------------------------------------------------------------------
(* calculate_positions_aspects.  An aspect is the text the source formats; *)
(* the model keeps the formatted parts next to it.                         *)

traditional_planets ==
    << "SOL", "LUNA", "MERCURIO", "VENUS", "MARTE", "JÚPITER", "SATURNO" >>

is_traditional(name) == \E k \in 1 .. Len(traditional_planets) : traditional_planets[k] = name

name_text(name) ==
    IF name = "SOL" THEN <<"S", "O", "L">>
    ELSE IF name = "LUNA" THEN <<"L", "U", "N", "A">>
    ELSE IF name = "MERCURIO" THEN <<"M", "E", "R", "C", "U", "R", "I", "O">>
    ELSE IF name = "VENUS" THEN <<"V", "E", "N", "U", "S">>
    ELSE IF name = "MARTE" THEN <<"M", "A", "R", "T", "E">>
    ELSE IF name = "JÚPITER" THEN <<"J", "Ú", "P", "I", "T", "E", "R">>
    ELSE IF name = "SATURNO" THEN <<"S", "A", "T", "U", "R", "N", "O">>
    ELSE IF name = "URANO" THEN <<"U", "R", "A", "N", "O">>
    ELSE IF name = "NEPTUNO" THEN <<"N", "E", "P", "T", "U", "N", "O">>
    ELSE IF name = "PLUTÓN" THEN <<"P", "L", "U", "T", "Ó", "N">>
    ELSE IF name = "ASC" THEN <<"A", "S", "C">>
    ELSE IF name = "MC" THEN <<"M", "C">>
    ELSE << >>

t_armonico_relevante ==
    << "A", "r", "m", "ó", "n", "i", "c", "o", " ", "R", "e", "l",
       "e", "v", "a", "n", "t", "e" >>

t_inarmonico_relevante ==
    << "I", "n", "a", "r", "m", "ó", "n", "i", "c", "o", " ", "R",
       "e", "l", "e", "v", "a", "n", "t", "e" >>

t_armonico == <<"A", "r", "m", "ó", "n", "i", "c", "o">>

t_inarmonico == <<"I", "n", "a", "r", "m", "ó", "n", "i", "c", "o">>

type_text(ty) ==
    IF ty = "Armónico Relevante" THEN t_armonico_relevante
    ELSE IF ty = "Inarmónico Relevante" THEN t_inarmonico_relevante
    ELSE IF ty = "Armónico" THEN t_armonico
    ELSE t_inarmonico

digits == << "0", "1", "2", "3", "4", "5", "6", "7", "8", "9" >>

\* decimal digits of a natural number
RECURSIVE nat_text(_)
nat_text(n) ==
    IF n < 10 THEN << digits[n + 1] >>
    ELSE Append(nat_text(n \div 10), digits[(n % 10) + 1])

\* f"{angle:.2f}" of a separation given in fixed-point degrees
angle_text(ang) ==
    LET h == round_div((ang % Res) * 100, Res)
    IN  nat_text(ang \div Res) \o << ".", digits[(h \div 10) + 1], digits[(h % 10) + 1] >>

\* f"{pos1['name']} {aspect_type} {pos2['name']} ({angle:.2f}°)"
aspect_text(name1, ty, name2, ang) ==
    name_text(name1) \o << " " >> \o type_text(ty) \o << " " >> \o name_text(name2)
        \o << " ", "(" >> \o angle_text(ang) \o << "°", ")" >>

\* asc_position: index of the first entry named ASC, 0 for None
asc_index(list) ==
    IF \E k \in 1 .. Len(list) : list[k].name = "ASC"
    THEN CHOOSE k \in 1 .. Len(list) :
             list[k].name = "ASC" /\ \A j \in 1 .. (k - 1) : list[j].name # "ASC"
    ELSE 0

\* The inner loop over positions[i+1:] from index j on: the pairs compared.
RECURSIVE inner_pairs(_, _, _)
inner_pairs(list, i, j) ==
    IF j > Len(list) THEN << >>
    ELSE IF is_traditional(list[j].name)
         THEN << <<i, j>> >> \o inner_pairs(list, i, j + 1)
         ELSE inner_pairs(list, i, j + 1)

inner_start_from_first(list, i, j) == inner_pairs(list, i, 1)

\* positions[i+1:]
inner_start(list, i, j) == inner_pairs(list, i, j)

\* The outer loop from index i on: all pairs of indices compared, in order.
RECURSIVE outer_pairs(_, _)
outer_pairs(list, i) ==
    IF i > Len(list) THEN << >>
    ELSE IF ~is_traditional(list[i].name) THEN outer_pairs(list, i + 1)
    ELSE inner_start(list, i, i + 1)
            \o (IF asc_index(list) # 0 THEN << <<i, asc_index(list)>> >> ELSE << >>)
            \o outer_pairs(list, i + 1)

aspect_of(list, pair) ==
    LET ang == calculate_angle(list[pair[1]].longitude, list[pair[2]].longitude)
        ty  == determine_aspect_type(ang)
    IN  [name1 |-> list[pair[1]].name, type |-> ty, name2 |-> list[pair[2]].name,
         angle |-> ang,
         text |-> IF ty = "None" THEN << >>
                  ELSE aspect_text(list[pair[1]].name, ty, list[pair[2]].name, ang)]

\* 'if aspect_type: aspects.append(aspect)' over the compared pairs
RECURSIVE emit(_, _, _)
emit(list, pairs, k) ==
    IF k > Len(pairs) THEN << >>
    ELSE LET a == aspect_of(list, pairs[k])
         IN  (IF a.type # "None" THEN << a >> ELSE << >>) \o emit(list, pairs, k + 1)

calculate_positions_aspects(list) == emit(list, outer_pairs(list, 1), 1)

----------------------------------------------------------------------------
(* calculate_dignity, is_angular, calculate_planet_aspects,                *)
(* calculate_dignity_table.                                                *)

dignities ==
    "SOL" :> [domicilio |-> {"ESCORPIO", "GÉMINIS", "PEGASO"},
        exaltacion |-> {"LEO", "ARIES", "CAPRICORNIO", "VIRGO"},
        caida |-> {"CÁNCER", "PISCIS", "LIBRA", "ACUARIO", "OFIUCO"},
        exilio |-> {"TAURO", "SAGITARIO"}] @@
    "LUNA" :> [domicilio |-> {"TAURO", "SAGITARIO"},
        exaltacion |-> {"CÁNCER", "PISCIS", "LIBRA", "ACUARIO", "OFIUCO"},
        caida |-> {"LEO", "ARIES", "CAPRICORNIO", "VIRGO"},
        exilio |-> {"ESCORPIO", "GÉMINIS", "PEGASO"}] @@
    "MERCURIO" :> [domicilio |-> {"LEO", "ARIES", "ESCORPIO", "PEGASO"},
        exaltacion |-> {"GÉMINIS", "CAPRICORNIO", "VIRGO"},
        caida |-> {"TAURO", "LIBRA", "ACUARIO", "OFIUCO"},
        exilio |-> {"CÁNCER", "PISCIS", "SAGITARIO"}] @@
    "VENUS" :> [domicilio |-> {"CÁNCER", "PISCIS", "SAGITARIO"},
        exaltacion |-> {"TAURO", "LIBRA", "ACUARIO", "OFIUCO"},
        caida |-> {"GÉMINIS", "CAPRICORNIO", "VIRGO"},
        exilio |-> {"LEO", "ARIES", "ESCORPIO", "PEGASO"}] @@
    "MARTE" :> [domicilio |-> {"GÉMINIS", "CAPRICORNIO", "VIRGO"},
        exaltacion |-> {"LEO", "ARIES", "ESCORPIO", "PEGASO"},
        caida |-> {"CÁNCER", "PISCIS", "SAGITARIO"},
        exilio |-> {"TAURO", "LIBRA", "ACUARIO", "OFIUCO"}] @@
    "JÚPITER" :> [domicilio |-> {"TAURO", "LIBRA", "ACUARIO", "OFIUCO"},
        exaltacion |-> {"CÁNCER", "PISCIS", "SAGITARIO"},
        caida |-> {"LEO", "ARIES", "ESCORPIO", "PEGASO"},
        exilio |-> {"GÉMINIS", "CAPRICORNIO", "VIRGO"}] @@
    "SATURNO" :> [domicilio |-> {"LEO", "ARIES", "LIBRA", "ACUARIO"},
        exaltacion |-> {"OFIUCO", "GÉMINIS", "SAGITARIO"},
        caida |-> {"TAURO", "ESCORPIO", "PEGASO"},
        exilio |-> {"CÁNCER", "PISCIS", "CAPRICORNIO", "VIRGO"}]

\* a variant that scores exile 0
calculate_dignity_exile_0(planet_name, lng) ==
    LET sg == get_sign(lng)
    IN  IF planet_name \in DOMAIN dignities
        THEN (IF sg \in dignities[planet_name].exaltacion THEN 6 ELSE 0)
             + (IF sg \in dignities[planet_name].domicilio THEN 3 ELSE 0)
        ELSE 0

calculate_dignity(planet_name, lng) ==
    LET sg == get_sign(lng)
    IN  IF planet_name \in DOMAIN dignities
        THEN (IF sg \in dignities[planet_name].exaltacion THEN 6 ELSE 0)
             + (IF sg \in dignities[planet_name].domicilio THEN 3 ELSE 0)
             + (IF sg \in dignities[planet_name].caida THEN 0 ELSE 0)
             + (IF sg \in dignities[planet_name].exilio THEN 3 ELSE 0)
        ELSE 0

specific_degrees == {354, 30, 60, 90, 120, 150, 186, 210, 240, 252, 270, 306, 324, 330}

is_angular(lng) ==
    IF \E degree \in specific_degrees : Abs((lng % N360) - Deg(degree)) <= Deg(1)
    THEN 6 ELSE 0

\* points of one aspect text for planet_name (lines 835-843)
\* a variant that tests the plain categories before the relevant ones
aspect_points_plain_first(planet_name, text) ==
    IF ~Contains(name_text(planet_name), text) THEN 0
    ELSE IF Contains(t_armonico, text) THEN 1
    ELSE IF Contains(t_inarmonico, text) THEN 0 - 1
    ELSE IF Contains(t_armonico_relevante, text) THEN 6
    ELSE IF Contains(t_inarmonico_relevante, text) THEN 0 - 6
    ELSE 0

aspect_points(planet_name, text) ==
    IF ~Contains(name_text(planet_name), text) THEN 0
    ELSE IF Contains(t_armonico_relevante, text) THEN 6
    ELSE IF Contains(t_inarmonico_relevante, text) THEN 0 - 6
    ELSE IF Contains(t_armonico, text) THEN 1
    ELSE IF Contains(t_inarmonico, text) THEN 0 - 1
    ELSE 0

RECURSIVE planet_aspects_loop(_, _, _)
planet_aspects_loop(planet_name, aspects_list, k) ==
    IF k > Len(aspects_list) THEN 0
    ELSE aspect_points(planet_name, aspects_list[k].text)
            + planet_aspects_loop(planet_name, aspects_list, k + 1)

calculate_planet_aspects(planet_name, aspects_list) ==
    planet_aspects_loop(planet_name, aspects_list, 1)

houses_rulers ==
    "SOL" :> [exaltacion |-> {1, 5, 6, 10}, domicilio |-> {3, 8},
        exilio |-> {2, 9}, caida |-> {4, 7, 11, 12}] @@
    "LUNA" :> [exaltacion |-> {4, 7, 11, 12}, domicilio |-> {2, 9},
        exilio |-> {3, 8}, caida |-> {1, 5, 6, 10}] @@
    "MERCURIO" :> [exaltacion |-> {3, 6, 10}, domicilio |-> {5, 1, 8},
        exilio |-> {4, 9, 12}, caida |-> {2, 7, 11}] @@
    "VENUS" :> [exaltacion |-> {2, 7, 11}, domicilio |-> {4, 9, 12},
        exilio |-> {5, 1, 8}, caida |-> {3, 6, 10}] @@
    "MARTE" :> [exaltacion |-> {5, 1, 8}, domicilio |-> {3, 6, 10},
        exilio |-> {2, 7, 11}, caida |-> {4, 9, 12}] @@
    "JÚPITER" :> [exaltacion |-> {4, 9, 12}, domicilio |-> {2, 7, 11},
        exilio |-> {3, 6, 10}, caida |-> {5, 1, 8}] @@
    "SATURNO" :> [exaltacion |-> {3, 9}, domicilio |-> {1, 5, 7, 11},
        exilio |-> {4, 6, 10, 12}, caida |-> {2, 8}]

\* The loop over houses_rulers[name].items() with its break: the points of
\* the first category, in dict order, whose houses hold house_num.
house_points_of(name, house_num) ==
    IF house_num \in houses_rulers[name].exaltacion THEN 6
    ELSE IF house_num \in houses_rulers[name].domicilio THEN 3
    ELSE IF house_num \in houses_rulers[name].exilio THEN 3
    ELSE IF house_num \in houses_rulers[name].caida THEN 0
    ELSE 0

planet_total_no_angular(house_points, dignity_points_sign, angular_points, aspect_points_) ==
    house_points + dignity_points_sign + aspect_points_

\* line 929
planet_total(house_points, dignity_points_sign, angular_points, aspect_points_) ==
    house_points + dignity_points_sign + angular_points + aspect_points_

dignity_row(pos, asc_lng, aspects_list) ==
    LET house_num == get_house_number(pos.longitude, asc_lng)
        hp == house_points_of(pos.name, house_num)
        dp == calculate_dignity(pos.name, pos.longitude)
        ap == is_angular(pos.longitude)
        sp == calculate_planet_aspects(pos.name, aspects_list)
    IN  [planeta |-> pos.name, signo |-> pos.sign, casa |-> house_num,
         puntos_casa |-> hp, puntos_dignidad |-> dp, puntos_angular |-> ap,
         puntos_aspectos |-> sp, total_planeta |-> planet_total(hp, dp, ap, sp)]

\* rows appended by the loop of lines 909-941 from index k on
RECURSIVE dignity_rows(_, _, _, _)
dignity_rows(list, asc_lng, aspects_list, k) ==
    IF k > Len(list) THEN << >>
    ELSE IF list[k].name \in DOMAIN houses_rulers
         THEN << dignity_row(list[k], asc_lng, aspects_list) >>
                  \o dignity_rows(list, asc_lng, aspects_list, k + 1)
         ELSE dignity_rows(list, asc_lng, aspects_list, k + 1)

\* total_points as accumulated by line 930
RECURSIVE sum_totals(_, _)
sum_totals(rows, k) ==
    IF k > Len(rows) THEN 0 ELSE rows[k].total_planeta + sum_totals(rows, k + 1)

calculate_dignity_table(list, aspects_list) ==
    IF asc_index(list) = 0 THEN [tabla |-> << >>, total_general |-> 0]
    ELSE LET rows == dignity_rows(list, list[asc_index(list)].longitude, aspects_list, 1)
         IN  [tabla |-> rows, total_general |-> sum_totals(rows, 1)]

----------------------------------------------------------------------------
(* is_dry_birth and calculate_houses_with_triplicities.                    *)

\* sun_pos: index of the first entry named SOL, 0 for None
sol_index(list) ==
    IF \E k \in 1 .. Len(list) : list[k].name = "SOL"
    THEN CHOOSE k \in 1 .. Len(list) :
             list[k].name = "SOL" /\ \A j \in 1 .. (k - 1) : list[j].name # "SOL"
    ELSE 0

\* a variant that measures the Sun from 0° when there is no ASC
is_dry_birth_sun_only(list) ==
    IF sol_index(list) = 0 THEN FALSE
    ELSE LET asc_lng == IF asc_index(list) = 0 THEN 0
                        ELSE list[asc_index(list)].longitude
             diff == (list[sol_index(list)].longitude - asc_lng) % N360
             house_ == (diff \div Deg(30)) + 1
         IN  6 <= house_ /\ house_ <= 11

is_dry_birth(list) ==
    IF sol_index(list) = 0 \/ asc_index(list) = 0 THEN FALSE
    ELSE LET diff == (list[sol_index(list)].longitude
                          - list[asc_index(list)].longitude) % N360
             house_ == (diff \div Deg(30)) + 1
         IN  6 <= house_ /\ house_ <= 11

SIGNS_BY_ELEMENT ==
    [AIRE   |-> << "GÉMINIS", "ACUARIO", "OFIUCO", "LIBRA" >>,
     TIERRA |-> << "TAURO", "CAPRICORNIO", "VIRGO" >>,
     AGUA   |-> << "ESCORPIO", "CÁNCER", "PISCIS", "PEGASO" >>,
     FUEGO  |-> << "ARIES", "LEO", "SAGITARIO" >>]

\* the dict comprehension of line 955, read as a lookup: the elements that
\* list the sign
elements_of(sign_) ==
    {e \in DOMAIN SIGNS_BY_ELEMENT :
        \E k \in 1 .. Len(SIGNS_BY_ELEMENT[e]) : SIGNS_BY_ELEMENT[e][k] = sign_}

TRIPLICITIES ==
    [AIRE   |-> [humedo |-> "MERCURIO", seco |-> "SATURNO", participativo |-> "JÚPITER"],
     TIERRA |-> [humedo |-> "VENUS", seco |-> "MERCURIO", participativo |-> "LUNA"],
     FUEGO  |-> [humedo |-> "SOL", seco |-> "SATURNO", participativo |-> "MARTE"],
     AGUA   |-> [humedo |-> "LUNA", seco |-> "MARTE", participativo |-> "JÚPITER"]]

HOUSE_MEANINGS ==
    << "ÓRGANO DE LA INTELIGENCIA",
       "OBJETO DEL SUSTENTO",
       "OBJETO DE LA INTELIGENCIA",
       "MENTE",
       "INTELIGENCIA",
       "OBJETO DE LA MENTE",
       "OBJETO DE LA RELACIÓN",
       "ÓRGANO DE LA MENTE",
       "ÓRGANO DE LA RELACIÓN",
       "UNE EL ÓRGANO DEL SUSTENTO CON EL OBJETO DE LA RELACIÓN",
       "UNE EL OBJETO DEL SUSTENTO CON EL ÓRGANO DE LA RELACIÓN",
       "ÓRGANO DEL SUSTENTO" >>

\* ELEMENT_BY_SIGN.get(sign, "FUEGO"): no sign is listed under two elements
get_element_for_sign(sign_) ==
    IF elements_of(sign_) = {} THEN "FUEGO"
    ELSE CHOOSE e \in elements_of(sign_) : TRUE

\* the flag is accepted and not read
get_triplicity_rulers_for_sign(sign_, is_dry) ==
    LET rulers == TRIPLICITIES[get_element_for_sign(sign_)]
    IN  [regente1 |-> rulers.humedo, regente2 |-> rulers.seco,
         regente3 |-> rulers.participativo]

\* the cusp of house i + 1 (line 1031)
house_cusp_no_step(asc_lng, i) == asc_lng % N360

house_cusp(asc_lng, i) == (asc_lng + i * Deg(30)) % N360

\* f"{house_cusp:.2f}°"
cusp_text(cusp) == angle_text(cusp) \o << "°" >>

house_data(asc_lng, i, is_dry) ==
    LET cusp == house_cusp(asc_lng, i)
    IN  [house_number |-> i + 1,
         element |-> get_element_for_sign(get_sign(cusp)),
         sign |-> get_sign(cusp),
         cusp_longitude |-> cusp_text(cusp),
         meaning |-> HOUSE_MEANINGS[i + 1],
         triplicity_rulers |-> get_triplicity_rulers_for_sign(get_sign(cusp), is_dry)]

calculate_houses_with_triplicities(list, is_dry) ==
    IF asc_index(list) = 0 THEN << >>
    ELSE [k \in 1 .. 12 |-> house_data(list[asc_index(list)].longitude, k - 1, is_dry)]

----------------------------------------------------------------------------
(* SpecChart: the aspect and dignity computations on lists as the position *)
(* engine returns them (with angles, without, empty) and on a list in      *)
(* another order.                                                          *)

ChartChoices ==
    [sol      : {Deg(210) + 1, Deg(95)},
     luna     : {Deg(30) + 1, Deg(275)},
     mercurio : {Deg(198), Deg(216) + 1},
     venus    : {Deg(240), Deg(250)},
     marte    : {Deg(150) + 1, Deg(5)},
     jupiter  : {Deg(90) + 1, Deg(300)},
     saturno  : {0, Deg(123)},
     asc      : {Deg(100), Deg(354)}]

ten_bodies(c) ==
    << position("SOL", c.sol), position("LUNA", c.luna),
       position("MERCURIO", c.mercurio), position("VENUS", c.venus),
       position("MARTE", c.marte), position("JÚPITER", c.jupiter),
       position("SATURNO", c.saturno), position("URANO", Deg(210) + 1),
       position("NEPTUNO", Deg(300)), position("PLUTÓN", Deg(250)) >>

angles(c) == << position("ASC", c.asc), position("MC", Deg(10)) >>

Reverse(list) == [k \in 1 .. Len(list) |-> list[Len(list) + 1 - k]]

ChartLists ==
    { ten_bodies(c) \o angles(c) : c \in ChartChoices }
    \cup { ten_bodies(c) : c \in {d \in ChartChoices : d.asc = Deg(100)} }
    \cup { Reverse(ten_bodies(c) \o angles(c)) : c \in ChartChoices }
    \cup { << >> }

InitChart ==
    /\ pc = "calculate_positions_aspects"
    /\ positions \in ChartLists
    /\ chartIdle
    /\ utc_datetime = Nil /\ lat = Nil /\ lon = Nil /\ path = Nil
    /\ t = Nil /\ returned = Nil
    /\ fnIdle /\ tzIdle /\ utcIdle

CalculatePositionsAspects ==
    /\ pc = "calculate_positions_aspects"
    /\ compared' = outer_pairs(positions, 1)
    /\ aspects' = calculate_positions_aspects(positions)
    /\ pc' = "calculate_dignity_table"
    /\ UNCHANGED <<dignity_table, birth_type, houses_table, response>>
    /\ UNCHANGED <<fnVars, tzVars, utcVars, posVars>>

CalculateDignityTable ==
    /\ pc = "calculate_dignity_table"
    /\ dignity_table' = calculate_dignity_table(positions, aspects)
    /\ pc' = "is_dry_birth"
    /\ UNCHANGED <<aspects, compared, birth_type, houses_table, response>>
    /\ UNCHANGED <<fnVars, tzVars, utcVars, posVars>>

IsDryBirth ==
    /\ pc = "is_dry_birth"
    /\ birth_type' = IF is_dry_birth(positions) THEN "seco" ELSE "húmedo"
    /\ pc' = "calculate_houses_with_triplicities"
    /\ UNCHANGED <<aspects, compared, dignity_table, houses_table, response>>
    /\ UNCHANGED <<fnVars, tzVars, utcVars, posVars>>

CalculateHousesWithTriplicities ==
    /\ pc = "calculate_houses_with_triplicities"
    /\ houses_table' = calculate_houses_with_triplicities(positions, birth_type = "seco")
    /\ pc' = "return_chart"
    /\ UNCHANGED <<aspects, compared, dignity_table, birth_type, response>>
    /\ UNCHANGED <<fnVars, tzVars, utcVars, posVars>>

NextChart ==
    \/ CalculatePositionsAspects
    \/ CalculateDignityTable
    \/ IsDryBirth
    \/ CalculateHousesWithTriplicities

SpecChart == InitChart /\ [][NextChart]_vars

SevenBodies == {"SOL", "LUNA", "MERCURIO", "VENUS", "MARTE", "JÚPITER", "SATURNO"}

NamesIn(list) == {list[k].name : k \in 1 .. Len(list)}

\* The unordered pairs the claim says are compared.
ExpectedPairs ==
    LET present == SevenBodies \cap NamesIn(positions)
    IN  {pr \in {{a, b} : a \in present, b \in present} : Cardinality(pr) = 2}
        \cup (IF "ASC" \in NamesIn(positions) THEN {{a, "ASC"} : a \in present} ELSE {})

ComparedNames(k) == {positions[compared[k][1]].name, positions[compared[k][2]].name}

QualifyingPairs ==
    {ComparedNames(k) : k \in
        {j \in 1 .. Len(compared) :
            determine_aspect_type(calculate_angle(positions[compared[j][1]].longitude,
                                                  positions[compared[j][2]].longitude))
              # "None"}}

\* C8: every unordered pair of distinct traditional bodies is compared once,
\* each traditional body is compared once with ASC when ASC is present, and
\* nothing else is compared; the records name no other body, no pair has two
\* records, there is one record per qualifying pair and at most 28 in all.
C8_PairsOnce ==
    (pc \in {"calculate_dignity_table", "is_dry_birth",
             "calculate_houses_with_triplicities", "return_chart"}) =>
        /\ \A k \in 1 .. Len(compared) :
               /\ Cardinality(ComparedNames(k)) = 2
               /\ ComparedNames(k) \in ExpectedPairs
        /\ \A k1, k2 \in 1 .. Len(compared) :
               ComparedNames(k1) = ComparedNames(k2) => k1 = k2
        /\ {ComparedNames(k) : k \in 1 .. Len(compared)} = ExpectedPairs
        /\ \A k \in 1 .. Len(aspects) :
               /\ aspects[k].name1 \in SevenBodies
               /\ aspects[k].name2 \in SevenBodies \cup {"ASC"}
               /\ {aspects[k].name1, aspects[k].name2}
                      \cap {"URANO", "NEPTUNO", "PLUTÓN", "MC"} = {}
        /\ \A k1, k2 \in 1 .. Len(aspects) :
               {aspects[k1].name1, aspects[k1].name2} = {aspects[k2].name1, aspects[k2].name2}
                   => k1 = k2
        /\ {{aspects[k].name1, aspects[k].name2} : k \in 1 .. Len(aspects)} = QualifyingPairs
        /\ Len(aspects) <= 21 + 7

\* C8 witness: a list in reverse order, ASC before the bodies, has had its
\* 28 pairs compared and records emitted, URANO standing on the SOL.
C8_Witness ==
    /\ pc = "return_chart"
    /\ Len(positions) = 12
    /\ positions[2].name = "ASC"
    /\ Len(compared) = 28
    /\ Len(aspects) >= 4
    /\ \E k \in 1 .. Len(positions) :
           positions[k].name = "SOL" /\ positions[k].longitude = Deg(210) + 1

RECURSIVE SumTotals(_)
SumTotals(rows) ==
    IF rows = << >> THEN 0 ELSE Head(rows).total_planeta + SumTotals(Tail(rows))

LongitudeOf(name) ==
    positions[CHOOSE k \in 1 .. Len(positions) : positions[k].name = name].longitude

NearBoundary(lng) ==
    \E b \in {354, 30, 60, 90, 120, 150, 186, 210, 240, 252, 270, 306, 324, 330} :
        lng >= Deg(b) - Deg(1) /\ lng <= Deg(b) + Deg(1)

\* C10: in every row total_planeta is the sum of the four contributions,
\* total_general is the sum of the rows' totals, and a body in one of its
\* domicile signs within 1 degree of a sign-boundary degree has both the 3
\* domicile points and the 6 angularity points in its total.
C10_TotalsAdd ==
    (pc = "return_chart") =>
        /\ \A k \in 1 .. Len(dignity_table.tabla) :
               LET r == dignity_table.tabla[k]
               IN  /\ r.total_planeta =
                          r.puntos_casa + r.puntos_dignidad + r.puntos_angular
                            + r.puntos_aspectos
                   /\ (r.signo \in dignities[r.planeta].domicilio
                         /\ NearBoundary(LongitudeOf(r.planeta))) =>
                          /\ r.puntos_dignidad = 3
                          /\ r.puntos_angular = 6
                          /\ r.total_planeta = r.puntos_casa + 3 + 6 + r.puntos_aspectos
        /\ dignity_table.total_general = SumTotals(dignity_table.tabla)

\* C10 witness: the SOL at 210.5 in ESCORPIO, a domicile sign, half a degree
\* from the boundary degree 210, has its row with 3 and 6 points, next to
\* rows with aspect points.
C10_Witness ==
    /\ pc = "return_chart"
    /\ \E k \in 1 .. Len(dignity_table.tabla) :
           /\ dignity_table.tabla[k].planeta = "SOL"
           /\ dignity_table.tabla[k].signo = "ESCORPIO"
           /\ dignity_table.tabla[k].puntos_dignidad = 3
           /\ dignity_table.tabla[k].puntos_angular = 6
           /\ dignity_table.tabla[k].puntos_aspectos # 0
    /\ Len(dignity_table.tabla) = 7

TypePoints(ty) ==
    IF ty = "Armónico Relevante" THEN 6
    ELSE IF ty = "Inarmónico Relevante" THEN 0 - 6
    ELSE IF ty = "Armónico" THEN 1
    ELSE IF ty = "Inarmónico" THEN 0 - 1
    ELSE 0

\* The points of the records from k on that name body b as a participant.
RECURSIVE ParticipantPoints(_, _)
ParticipantPoints(b, k) ==
    IF k > Len(aspects) THEN 0
    ELSE (IF aspects[k].name1 = b \/ aspects[k].name2 = b
          THEN TypePoints(aspects[k].type) ELSE 0)
         + ParticipantPoints(b, k + 1)

AspectTypesPresent == {aspects[k].type : k \in 1 .. Len(aspects)}

\* C19: for the list calculate_positions_aspects produced and every
\* traditional body B, calculate_planet_aspects(B, list) is the sum, over the
\* records that name B as a participant, of +6, -6, +1, -1 by the record's
\* own category; the rows of the dignity table carry that sum.
C19_AspectPoints ==
    (pc \in {"calculate_dignity_table", "is_dry_birth",
             "calculate_houses_with_triplicities", "return_chart"}) =>
        /\ \A b \in SevenBodies :
               calculate_planet_aspects(b, aspects) = ParticipantPoints(b, 1)
        /\ (pc # "calculate_dignity_table") =>
               \A k \in 1 .. Len(dignity_table.tabla) :
                   dignity_table.tabla[k].puntos_aspectos
                       = ParticipantPoints(dignity_table.tabla[k].planeta, 1)

\* C19 witness: a list with records of all four categories, one of them
\* between two bodies and one with the ASC, was scored into the table.
C19_Witness ==
    /\ pc = "return_chart"
    /\ AspectTypesPresent = {"Armónico Relevante", "Inarmónico Relevante",
                             "Armónico", "Inarmónico"}
    /\ \E k \in 1 .. Len(aspects) : aspects[k].name2 = "ASC"
    /\ \E k \in 1 .. Len(aspects) : aspects[k].name2 # "ASC"
    /\ \E k \in 1 .. Len(dignity_table.tabla) : dignity_table.tabla[k].puntos_aspectos < 0
    /\ \E k \in 1 .. Len(dignity_table.tabla) : dignity_table.tabla[k].puntos_aspectos > 0

----------------------------------------------------------------------------
(* SpecHouses: calculate_houses_with_triplicities on lists that hold an    *)
(* ASC at every grid longitude, with the flag and the other entries drawn  *)
(* independently of it.                                                    *)

HouseSuns == {Deg(95), Deg(210) + 1}

HouseLists ==
    { << position("SOL", s), position("LUNA", Deg(30)) >>
          \o << position("ASC", a), position("MC", Deg(10)) >> :
        s \in HouseSuns, a \in 0 .. (N360 - 1) }

InitHouses ==
    /\ pc = "calculate_houses_with_triplicities"
    /\ positions \in HouseLists
    /\ birth_type \in {"seco", "húmedo"}
    /\ aspects = Nil /\ compared = Nil /\ dignity_table = Nil /\ houses_table = Nil
    /\ response = Nil
    /\ utc_datetime = Nil /\ lat = Nil /\ lon = Nil /\ path = Nil
    /\ t = Nil /\ returned = Nil
    /\ fnIdle /\ tzIdle /\ utcIdle

NextHouses == CalculateHousesWithTriplicities

SpecHouses == InitHouses /\ [][NextHouses]_vars

AscLongitude == positions[asc_index(positions)].longitude

\* C11: with an ASC present the table has 12 records numbered 1..12 in order;
\* record i (from 0) carries the cusp (asc + 30 i) mod 360, the sign of that
\* cusp, and the element and the three rulers that belong to that sign; the
\* table is the one a call with the ASC entry alone and the other flag
\* returns; house 1 carries the sign of the Ascendant.
C11_HousesFromAsc ==
    (pc = "return_chart" /\ asc_index(positions) # 0) =>
        /\ Len(houses_table) = 12
        /\ \A i \in 0 .. 11 :
               LET rec == houses_table[i + 1]
                   cusp == (AscLongitude + Deg(30) * i) % N360
               IN  /\ rec.house_number = i + 1
                   /\ rec.cusp_longitude = angle_text(cusp) \o << "°" >>
                   /\ rec.sign = get_sign(cusp)
                   /\ \E k \in 1 .. Len(SIGNS_BY_ELEMENT[rec.element]) :
                          SIGNS_BY_ELEMENT[rec.element][k] = rec.sign
                   /\ rec.triplicity_rulers.regente1 = TRIPLICITIES[rec.element].humedo
                   /\ rec.triplicity_rulers.regente2 = TRIPLICITIES[rec.element].seco
                   /\ rec.triplicity_rulers.regente3 = TRIPLICITIES[rec.element].participativo
        /\ houses_table =
               calculate_houses_with_triplicities(
                   << position("ASC", AscLongitude) >>, birth_type # "seco")
        /\ houses_table[1].sign = positions[asc_index(positions)].sign

\* C11 witness: a dry birth with the Ascendant at 354°: houses 1 and 2 both
\* fall in ARIES and house 12 in PEGASO.
C11_Witness ==
    /\ pc = "return_chart"
    /\ birth_type = "seco"
    /\ Len(houses_table) = 12
    /\ AscLongitude = Deg(354)
    /\ houses_table[1].sign = "ARIES"
    /\ houses_table[2].sign = "ARIES"
    /\ houses_table[12].sign = "PEGASO"

HasNoAsc == \A k \in 1 .. Len(positions) : positions[k].name # "ASC"

\* C12: for a list without an ASC entry (the empty list included) every
\* downstream operation returns: the dignity table is empty with grand total
\* 0, the house table is the empty list, is_dry_birth answers false, and the
\* aspects name two traditional bodies each (none for the empty list).
C12_NoAscDegrades ==
    HasNoAsc =>
        /\ pc \in {"calculate_positions_aspects", "calculate_dignity_table",
                   "is_dry_birth", "calculate_houses_with_triplicities",
                   "return_chart"}
        /\ (pc # "calculate_positions_aspects") =>
               /\ \A k \in 1 .. Len(aspects) :
                      /\ aspects[k].name1 \in SevenBodies
                      /\ aspects[k].name2 \in SevenBodies
               /\ (positions = << >>) => (aspects = << >>)
        /\ (pc \in {"is_dry_birth", "calculate_houses_with_triplicities",
                    "return_chart"}) =>
               dignity_table = [tabla |-> << >>, total_general |-> 0]
        /\ (pc \in {"calculate_houses_with_triplicities", "return_chart"}) =>
               birth_type = "húmedo"
        /\ (pc = "return_chart") => (houses_table = << >>)

\* C12 witness: the ten bodies without angles went through all four
\* operations and some aspect between two bodies was recorded.
C12_Witness ==
    /\ pc = "return_chart"
    /\ HasNoAsc
    /\ Len(positions) = 10
    /\ Len(aspects) > 0
    /\ houses_table = << >>
    /\ dignity_table.tabla = << >>

----------------------------------------------------------------------------
(* SpecDignity: calculate_dignity_table for one traditional body and an    *)
(* ASC, the body taken through every sign and every house.                 *)

DignityLists ==
    { << position(b, Deg(6 * k) + 1), position("ASC", Deg(30 * a)) >> :
        b \in SevenBodies, k \in 0 .. 59, a \in 0 .. 11 }

InitDignity ==
    /\ pc = "calculate_dignity_table"
    /\ positions \in DignityLists
    /\ aspects = << >>
    /\ compared = Nil /\ dignity_table = Nil /\ birth_type = Nil
    /\ houses_table = Nil /\ response = Nil
    /\ utc_datetime = Nil /\ lat = Nil /\ lon = Nil /\ path = Nil
    /\ t = Nil /\ returned = Nil
    /\ fnIdle /\ tzIdle /\ utcIdle

NextDignity == CalculateDignityTable

SpecDignity == InitDignity /\ [][NextDignity]_vars

Categories == {"exaltacion", "domicilio", "exilio", "caida"}

CategoryPoints(c) ==
    IF c = "exaltacion" THEN 6
    ELSE IF c = "domicilio" THEN 3
    ELSE IF c = "exilio" THEN 3
    ELSE 0

SignCategories(b, sg) == {c \in Categories : sg \in dignities[b][c]}

HouseCategories(b, h) == {c \in Categories : h \in houses_rulers[b][c]}

\* C18: for each of the 7 traditional bodies every one of the 14 signs is in
\* exactly one of the body's four essential-dignity sets and every house
\* 1..12 in exactly one of its four house-rulership sets; so the sign points
\* and the house points of a row are 6, 3, 3 or 0 of that one category.
C18_OneCategory ==
    /\ \A b \in SevenBodies :
           /\ \A k \in 1 .. Len(signs) : Cardinality(SignCategories(b, signs[k].name)) = 1
           /\ \A h \in 1 .. 12 : Cardinality(HouseCategories(b, h)) = 1
    /\ (pc = "is_dry_birth") =>
           \A k \in 1 .. Len(dignity_table.tabla) :
               LET row == dignity_table.tabla[k]
               IN  /\ \E c \in SignCategories(row.planeta, row.signo) :
                          row.puntos_dignidad = CategoryPoints(c)
                   /\ \E c \in HouseCategories(row.planeta, row.casa) :
                          row.puntos_casa = CategoryPoints(c)

\* C18 witness: the Sun in LEO (exaltation by sign) in house 3 (domicile by
\* house) got 6 sign points and 3 house points.
C18_Witness ==
    /\ pc = "is_dry_birth"
    /\ Len(dignity_table.tabla) = 1
    /\ dignity_table.tabla[1].planeta = "SOL"
    /\ dignity_table.tabla[1].signo = "LEO"
    /\ dignity_table.tabla[1].casa = 3
    /\ dignity_table.tabla[1].puntos_dignidad = 6
    /\ dignity_table.tabla[1].puntos_casa = 3

----------------------------------------------------------------------------
(* SpecCalculate: the route /calculate from the geocoder's first record to *)
(* the payload (lines 1152-1225).  The position engine is taken by its     *)
(* outcomes: the empty list, the ten bodies, or the ten bodies and the     *)
(* angles when both coordinates are given.                                 *)

CityRecords ==
    [nombre : {"city"}, lat : {Deg(40) + 1, 0 - Deg(34)}, lon : {0 - Deg(4) + 1, Deg(82) + 1},
     pais : {c_Spain, c_France, c_empty}]
    \cup [nombre : {"city"}, lat : {Deg(40) + 1}, lon : {Deg(82) + 1}, pais_null : {TRUE}]

\* data['date']: 2000-06-15, 0001-01-01 and the text 1999-02-29
RequestDates ==
    {[year |-> 2000, month |-> 6, day |-> 15], [year |-> 1, month |-> 1, day |-> 1],
     [year |-> 1999, month |-> 2, day |-> 29]}

\* data['time']: 00:00, 12:30 and the text 24:00
RequestTimes ==
    {[hour |-> 0, minute |-> 0], [hour |-> 12, minute |-> 30], [hour |-> 24, minute |-> 0]}

one_chart ==
    [sol |-> Deg(95), luna |-> Deg(275), mercurio |-> Deg(198), venus |-> Deg(240),
     marte |-> Deg(5), jupiter |-> Deg(300), saturno |-> Deg(123), asc |-> Deg(100)]

\* what calculate_positions_with_utc and calculate_positions may return
PositionOutcomes == {<< >>, ten_bodies(one_chart) \o angles(one_chart)}

\* utc_datetime.strftime("%Y-%m-%d %H:%M")
strftime(dt) == << dt.year, dt.month, dt.day, dt.hour, dt.minute >>

\* f"{data['date']} {data['time']}"
local_time_text(f, h) == << f.year, f.month, f.day, h.hour, h.minute >>

coordinates_of(city) == [latitude |-> city.lat, longitude |-> city.lon]

houses_analysis_of(list) ==
    LET bt == IF is_dry_birth(list) THEN "seco" ELSE "húmedo"
    IN  [houses |-> calculate_houses_with_triplicities(list, bt = "seco"),
         birth_type |-> bt]

\* the dict of lines 1211-1225
response_error_timezone(city, list) ==
    LET asp == calculate_positions_aspects(list)
    IN  [positions |-> list,
         coordinates |-> coordinates_of(city),
         city |-> city.nombre,
         error_timezone |-> "No se pudo determinar la zona horaria",
         aspects |-> asp,
         dignity_table |-> calculate_dignity_table(list, asp),
         houses_analysis |-> houses_analysis_of(list)]

\* the dict of lines 1175-1191
response_chart(city, f, h, tz, utc, list) ==
    LET asp == calculate_positions_aspects(list)
    IN  [positions |-> list,
         coordinates |-> coordinates_of(city),
         city |-> city.nombre,
         timezone |-> tz,
         local_time |-> local_time_text(f, h),
         utc_time |-> strftime(utc),
         aspects |-> asp,
         dignity_table |-> calculate_dignity_table(list, asp),
         houses_analysis |-> houses_analysis_of(list)]

InitCalculate ==
    /\ pc = "calculate"
    /\ coordenadas \in CityRecords
    /\ fecha \in RequestDates
    /\ hora \in RequestTimes
    /\ time_zone_df \in {<< >>, TableEurope}
    /\ hemisferio = Nil /\ is_dst = Nil /\ timezone_info = Nil
    /\ dt_utc = Nil
    /\ positions = Nil
    /\ utc_datetime = Nil /\ lat = Nil /\ lon = Nil /\ path = Nil
    /\ t = Nil /\ returned = Nil
    /\ fnIdle /\ chartIdle

\* line 1154
CalculateTimezone ==
    /\ pc = "calculate"
    /\ timezone_info' = obtener_zona_horaria(coordenadas, fecha)
    /\ pc' = "calculate_utc"
    /\ UNCHANGED <<coordenadas, fecha, hemisferio, time_zone_df, is_dst>>
    /\ UNCHANGED <<fnVars, utcVars, posVars, chartVars>>

\* line 1157; an exception leaves the try block for line 1195
CalculateUtc ==
    /\ pc = "calculate_utc"
    /\ dt_utc' = convertir_a_utc(fecha, hora, timezone_info)
    /\ pc' = IF dt_utc'.raised THEN "calculate_except" ELSE "calculate_positions"
    /\ UNCHANGED hora
    /\ UNCHANGED <<fnVars, tzVars, posVars, chartVars>>

\* line 1160
CalculatePositions ==
    /\ pc = "calculate_positions"
    /\ positions' \in PositionOutcomes
    /\ pc' = "calculate_response"
    /\ UNCHANGED <<utc_datetime, lat, lon, path, t, returned>>
    /\ UNCHANGED <<fnVars, tzVars, utcVars, chartVars>>

\* lines 1163-1193
CalculateResponse ==
    /\ pc = "calculate_response"
    /\ response' = response_chart(coordenadas, fecha, hora, timezone_info,
                                  dt_utc.dt, positions)
    /\ pc' = "return_response"
    /\ UNCHANGED <<aspects, compared, dignity_table, birth_type, houses_table>>
    /\ UNCHANGED <<fnVars, tzVars, utcVars, posVars>>

\* lines 1198-1203: calculate_positions parses the request's texts itself
\* and returns [] when they do not parse
CalculateExceptPositions ==
    /\ pc = "calculate_except"
    /\ positions' \in (IF parses(fecha, hora) THEN PositionOutcomes ELSE {<< >>})
    /\ pc' = "calculate_except_response"
    /\ UNCHANGED <<utc_datetime, lat, lon, path, t, returned>>
    /\ UNCHANGED <<fnVars, tzVars, utcVars, chartVars>>

\* lines 1206-1225
CalculateExceptResponse ==
    /\ pc = "calculate_except_response"
    /\ response' = response_error_timezone(coordenadas, positions)
    /\ pc' = "return_response"
    /\ UNCHANGED <<aspects, compared, dignity_table, birth_type, houses_table>>
    /\ UNCHANGED <<fnVars, tzVars, utcVars, posVars>>

NextCalculate ==
    \/ CalculateTimezone
    \/ CalculateUtc
    \/ CalculatePositions
    \/ CalculateResponse
    \/ CalculateExceptPositions
    \/ CalculateExceptResponse

SpecCalculate == InitCalculate /\ [][NextCalculate]_vars

ChartFields ==
    {"positions", "coordinates", "city", "timezone", "local_time", "utc_time",
     "aspects", "dignity_table", "houses_analysis"}

\* C16: every chart response has the same top-level fields (positions,
\* coordinates, city, timezone, local_time, utc_time, aspects, dignity_table,
\* houses_analysis) whichever fallback fired in the timezone, UTC-conversion
\* or position stage.
C16_ResponseShape ==
    (pc = "return_response") => DOMAIN response = ChartFields

----------------------------------------------------------------------------
(* obtener_datos_ciudad behind functools.lru_cache, as the route /calculate *)
(* calls it.  The geocoding service is outside the program: each call       *)
(* ends in a timeout, another exception, or a response with a status code   *)
(* and a list of features.  The value returned is a record with the key     *)
(* 'error' (the dict) or with the key 'opciones' (the list).                *)

\* @lru_cache(maxsize=100)
maxsize == 100

opcion(resultado) ==
    [nombre |-> resultado.formatted, lat |-> resultado.lat, lon |-> resultado.lon,
     pais |-> resultado.country]

\* lines 89-109
obtener_datos_ciudad(get) ==
    CASE get.outcome = "timeout" -> [error |-> "Timeout en la consulta"]
      [] get.outcome = "exception" -> [error |-> "Error: connection"]
      [] get.outcome = "response" ->
             IF get.status_code = 200
             THEN IF get.features # << >>
                  THEN [opciones |-> [k \in 1 .. Len(get.features) |-> opcion(get.features[k])]]
                  ELSE [error |-> "Ciudad no encontrada"]
             ELSE [error |-> "Error en la consulta: 500"]

\* the key lru_cache makes of the arguments
make_key(ciudad, date, time) == <<ciudad, date, time>>

cached(c, key) == \E k \in 1 .. Len(c) : c[k].key = key

cache_get(c, key) == c[CHOOSE k \in 1 .. Len(c) : c[k].key = key].result

\* a hit makes the entry the most recently used one
cache_touch(c, key) ==
    LET k == CHOOSE j \in 1 .. Len(c) : c[j].key = key
    IN  SubSeq(c, 1, k - 1) \o SubSeq(c, k + 1, Len(c)) \o << c[k] >>

\* a miss stores whatever the function returned, in place of the least
\* recently used entry when the cache is full
cache_put(c, key, result) ==
    LET kept == IF Len(c) >= maxsize THEN Tail(c) ELSE c
    IN  Append(kept, [key |-> key, result |-> result])

\* lines 1144-1150: what the route does with the value
is_error(result) == "error" \in DOMAIN result

city_data_of(result) == IF is_error(result) THEN result ELSE result.opciones[1]

status_of(result) == IF is_error(result) THEN "400" ELSE "chart"

----------------------------------------------------------------------------
(* SpecCache: up to MaxRequests requests to /calculate, one after another, *)
(* for cities, dates and times of the pool.                                *)

MaxRequests == 3

Cities == {"Madrid", "Atlantis", ""}

Dates == {"2000-06-15"}

Times == {"12:00", "13:30"}

Features ==
    {<< >>,
     << [formatted |-> "Madrid, Spain", lat |-> Deg(40) + 1, lon |-> 0 - Deg(4) + 1,
         country |-> "Spain"] >>}

GetOutcomes ==
    {[outcome |-> "timeout"], [outcome |-> "exception"]}
    \cup [outcome : {"response"}, status_code : {200, 500}, features : Features]

InitCache ==
    /\ pc = "serve"
    /\ cache = << >>
    /\ requests = << >>
    /\ city_data = Nil
    /\ csv_file = Nil /\ csv_reader = Nil
    /\ longitude = Nil /\ asc_longitude = Nil /\ sign = Nil
    /\ house = Nil /\ angle = Nil /\ aspect_type = Nil
    /\ sign_position = Nil /\ ascIdle
    /\ tzIdle /\ utcIdle /\ posIdle /\ chartIdle

CacheFrame ==
    /\ UNCHANGED <<longitude, asc_longitude, sign, house, angle, aspect_type,
                   sign_position, ascVars, csv_file, csv_reader>>
    /\ UNCHANGED <<pc, tzVars, utcVars, posVars, chartVars>>

\* lines 1138-1140: the request names no city
CalculateNoCity ==
    /\ pc = "serve"
    /\ Len(requests) < MaxRequests
    /\ \E date \in Dates, time \in Times :
           requests' = Append(requests,
                              [key |-> make_key("", date, time), lookup |-> "none",
                               result |-> [error |-> "Ciudad no especificada"],
                               status |-> "400"])
    /\ UNCHANGED <<cache, city_data>>
    /\ CacheFrame

\* lines 1142-1150 with the arguments in the cache: no call is made
CalculateCached ==
    /\ pc = "serve"
    /\ Len(requests) < MaxRequests
    /\ \E ciudad \in Cities \ {""}, date \in Dates, time \in Times :
           LET key == make_key(ciudad, date, time)
           IN  /\ cached(cache, key)
               /\ LET result == cache_get(cache, key)
                  IN  /\ cache' = cache_touch(cache, key)
                      /\ city_data' = city_data_of(result)
                      /\ requests' = Append(requests,
                                            [key |-> key, lookup |-> "cache",
                                             result |-> result,
                                             status |-> status_of(result)])
    /\ CacheFrame

\* lines 1142-1150 with the arguments not in the cache: the function runs
\* and calls the geocoding service
CalculateCall ==
    /\ pc = "serve"
    /\ Len(requests) < MaxRequests
    /\ \E ciudad \in Cities \ {""}, date \in Dates, time \in Times, get \in GetOutcomes :
           LET key == make_key(ciudad, date, time)
               result == obtener_datos_ciudad(get)
           IN  /\ ~cached(cache, key)
               /\ cache' = cache_put(cache, key, result)
               /\ city_data' = city_data_of(result)
               /\ requests' = Append(requests,
                                     [key |-> key, lookup |-> "call", result |-> result,
                                      status |-> status_of(result)])
    /\ CacheFrame

NextCache == CalculateNoCity \/ CalculateCached \/ CalculateCall

SpecCache == InitCache /\ [][NextCache]_vars

\* the lookup that follows lookup i with the same key
NextSameKey(i, j) ==
    /\ i < j
    /\ requests[j].lookup # "none"
    /\ requests[j].key = requests[i].key
    /\ \A k \in i + 1 .. j - 1 :
           requests[k].lookup = "none" \/ requests[k].key # requests[i].key

\* C24: once a lookup for a key has ended in an error, the next request
\* with the same key calls the geocoding service again; a request is
\* answered from the cache only after a successful lookup.
C24_ErrorsNotReplayed ==
    \A i \in 1 .. Len(requests), j \in 1 .. Len(requests) :
        (requests[i].lookup # "none" /\ is_error(requests[i].result) /\ NextSameKey(i, j))
            => requests[j].lookup = "call"

====
